---- MODULE Spec2Model ----
(***************************************************************************)
(* A model of the DNS parsing pipeline of dns_spider: the wire decoder     *)
(* (src/protocols/dns/udp.rs) and the session reassemblers                 *)
(* (src/protocols/dns/tcp.rs, dot.rs, doq.rs).                             *)
(*                                                                         *)
(* A byte is a number in 0..255, a byte slice a sequence of bytes.  Rust   *)
(* offsets are 0-based: the byte at offset i of slice d is d[i + 1].       *)
(***************************************************************************)
EXTENDS Integers, Sequences, FiniteSets, Bags, TLC

VARIABLES
    nd,       \* the locals of one run of UdpDnsParser::parse_domain_name
    pkt,      \* the byte slice handed to UdpDnsParser::parse
    sent,     \* the message pkt is the wire format of, when pkt was encoded
              \* from a message
    ret,      \* what that call of parse returned, and the statistics after it
    driven,   \* which reassembler this run drives: "tcp", "dot" or "doq";
              \* "doh" when it calls the DoH parser, "detect" the detector,
              \* "driver" when it runs the driver, "pool" a driver
              \* with several workers on one capture, "output" the
              \* output manager, "backend" a capture backend,
              \* "extract" the extraction loop of the TCP reassembler
    tcp,      \* a TcpDnsParser
    dot,      \* a DotParser
    doq,      \* a DoqParser
    offered,  \* the flows offered so far to a newly built reassembler, each a
              \* flow it had not been offered before, one segment each
    feed,     \* a byte stream of framed messages and how far it has been fed to
              \* process_tcp_segment on one flow, with all the messages returned
    driver,   \* a Driver, the captures its start calls created and the threads
              \* they spawned
    output,   \* an OutputManager, the worker handing it messages and the calls
              \* made on its outputs
    capture,  \* a capture backend (XdpCapture or DpdkInstance) with the
              \* handles it holds and what was done to them
    ex,       \* the process_tcp_segment call under way: its arguments, the
              \* parser it was made on and the locals of its extraction loop
    call      \* the latest call on the driven reassembler: its arguments, what
              \* it returned and the statistics after it

vars == <<nd, pkt, sent, ret, driven, tcp, dot, doq, offered, feed, driver, output, capture, ex, call>>

(***************************************************************************)
(* Bounds of the model.                                                    *)
(***************************************************************************)
\* longest byte slice enumerated exhaustively for name decoding
MaxNameLen == 4
\* most records laid out after the header of a message handed to parse
MaxRecords == 3
\* largest qdcount and ancount written into the header of such a message
MaxCount == 2
\* largest max_sessions a reassembler is built with (from 0 on)
MaxSessions == 2
\* the max_packet_size the reassemblers are built with
MaxPacketSize == 2
\* most messages in a stream fed to the TCP reassembler
MaxStream == 2
\* the max_packet_size of the reassembler a stream is fed to: room for any
\* one framed message of a stream, not for any two
StreamPacketSize == 40
\* the session_timeout_ms the reassemblers are built with
SessionTimeoutMs == 2
\* largest clock value handed to update_time: late enough for a session to
\* be idle for longer than the timeout
MaxClock == SessionTimeoutMs + 1

(***************************************************************************)
(* Sequences and bytes.                                                    *)
(***************************************************************************)
\* the sequences over S of length 0..n
SeqsUpTo(S, n) == UNION {[1..k -> S] : k \in 0..n}

\* data[from..to) with Rust's 0-based, end-exclusive range
Slice(data, from, to) == [i \in 1..(to - from) |-> data[from + i]]

\* u16::from_be_bytes([hi, lo])
U16(hi, lo) == hi * 256 + lo

\* String::from_utf8_lossy on one byte that is not part of a valid multi-byte
\* sequence: ASCII is kept, any other byte becomes U+FFFD.  The slices of the
\* model hold ASCII bytes and 0xC0, which no valid UTF-8 sequence contains.
Utf8Lossy(bytes) == [i \in 1..Len(bytes) |-> IF bytes[i] < 128 THEN bytes[i] ELSE 65533]

\* '.'
Dot == <<46>>

(***************************************************************************)
(* UdpDnsParser::parse_domain_name, one iteration of its while loop per    *)
(* step.  pc is "loop" while the loop runs, "some" once the function has   *)
(* returned Some((name, next_pos)) and "none" once it has returned None.   *)
(***************************************************************************)
max_jumps == 10

NameStart(data, offset) ==
    [data |-> data, pos |-> offset, jumped |-> FALSE, jump_count |-> 0,
     name |-> <<>>, next_pos |-> offset, pc |-> "loop"]

\* the code after the loop: lines 76-81
NameFinish(s) ==
    [s EXCEPT !.next_pos = IF ~s.jumped THEN s.pos + 1 ELSE s.next_pos,
              !.pc = "some"]

\* the pointer branch without the jump limit of lines 47-49
NameStepPointerNoLimit(s) ==
    LET d == s.data
        pointer == ((d[s.pos + 1] % 64) * 256) + d[s.pos + 2]
    IN  IF s.pos + 1 >= Len(d)
        THEN [s EXCEPT !.pc = "none"]
        ELSE [s EXCEPT !.next_pos = IF ~s.jumped THEN s.pos + 2 ELSE s.next_pos,
                       !.pos = pointer,
                       !.jumped = TRUE,
                       !.jump_count = s.jump_count + 1]

\* a pointer branch that does not note where the name ends in the record it
\* is part of (lines 37-39 left out)
NameStepPointerForgetsNext(s) ==
    LET d == s.data
        pointer == ((d[s.pos + 1] % 64) * 256) + d[s.pos + 2]
    IN  IF s.pos + 1 >= Len(d)
        THEN [s EXCEPT !.pc = "none"]
        ELSE [s EXCEPT !.pos = pointer,
                       !.jumped = TRUE,
                       !.jump_count = s.jump_count + 1,
                       !.pc = IF s.jump_count + 1 > max_jumps THEN "none" ELSE "loop"]

\* the pointer branch: lines 32-49
NameStepPointer(s) ==
    LET d == s.data
        pointer == ((d[s.pos + 1] % 64) * 256) + d[s.pos + 2]
    IN  IF s.pos + 1 >= Len(d)
        THEN [s EXCEPT !.pc = "none"]
        ELSE [s EXCEPT !.next_pos = IF ~s.jumped THEN s.pos + 2 ELSE s.next_pos,
                       !.pos = pointer,
                       !.jumped = TRUE,
                       !.jump_count = s.jump_count + 1,
                       !.pc = IF s.jump_count + 1 > max_jumps THEN "none" ELSE "loop"]

\* the label branch: lines 50-73
NameStepLabel(s) ==
    LET d == s.data
        len == d[s.pos + 1]
        pos1 == s.pos + 1
    IN  IF len = 0
        THEN NameFinish(s)
        ELSE IF pos1 + len > Len(d)
        THEN [s EXCEPT !.pos = pos1, !.pc = "none"]
        ELSE [s EXCEPT !.name = (IF s.name # <<>> THEN s.name \o Dot ELSE s.name)
                                    \o Utf8Lossy(Slice(d, pos1, pos1 + len)),
                       !.pos = pos1 + len]

\* one evaluation of the loop condition and, when it holds, of the loop body
NameStep(s) ==
    IF ~(s.pos < Len(s.data))
    THEN NameFinish(s)
    ELSE IF s.data[s.pos + 1] \div 64 = 3     \* (data[pos] & 0xC0) == 0xC0
    THEN NameStepPointer(s)
    ELSE NameStepLabel(s)

RECURSIVE NameRun(_)
NameRun(s) == IF s.pc = "loop" THEN NameRun(NameStep(s)) ELSE s

\* what parse_domain_name returns once its locals are s
NameReturn(s) ==
    IF s.pc = "some"
    THEN [some |-> TRUE, name |-> s.name, next |-> s.next_pos]
    ELSE [some |-> FALSE]

\* parse_domain_name(data, offset): None, or Some((name, next_pos))
parse_domain_name(data, offset) == NameReturn(NameRun(NameStart(data, offset)))

\* the locals when no call of parse_domain_name is under way
NameIdle == NameFinish(NameStart(<<>>, 0))

(***************************************************************************)
(* StatsCounter (src/core/stats.rs): named counters; get of a name never   *)
(* incremented is 0.                                                       *)
(***************************************************************************)
StatKeys ==
    {"dns.udp.invalid_size", "dns.udp.parse_question_failed",
     "dns.udp.parse_answer_failed", "dns.udp.parse_failed", "dns.udp.parsed",
     "dns.udp.query", "dns.udp.response", "dns.tcp.buffer_overflow",
     "dns.dot.handshake_completed", "dns.dot.data_after_close",
     "dns.doq.handshake_completed", "dns.doq.data_after_close",
     "packet.processed", "packet.need_more_data", "packet.unknown"}

\* StatsCounter::new()
StatsNew == [k \in StatKeys |-> 0]

\* StatsCounter::increment
Increment(stats, key) == [stats EXCEPT ![key] = @ + 1]

\* StatsCounter::get: the value of the counter, 0 for one never incremented
get(stats, key) == stats[key]

(***************************************************************************)
(* The wire decoder: UdpDnsParser (src/protocols/dns/udp.rs).              *)
(***************************************************************************)
\* DnsRecordType::from(u16)
RecordTypeFrom(value) ==
    CASE value = 1 -> <<"A">>
      [] value = 28 -> <<"AAAA">>
      [] value = 5 -> <<"CNAME">>
      [] value = 15 -> <<"MX">>
      [] value = 2 -> <<"NS">>
      [] value = 12 -> <<"PTR">>
      [] value = 6 -> <<"SOA">>
      [] value = 33 -> <<"SRV">>
      [] value = 16 -> <<"TXT">>
      [] OTHER -> <<"Other", value>>

\* parse_question once parse_domain_name has returned n, lines 89-105
QuestionAfterName(data, n) ==
    IF ~n.some THEN [some |-> FALSE]
    ELSE IF n.next + 4 > Len(data) THEN [some |-> FALSE]
    ELSE [some |-> TRUE,
          question |-> [name |-> n.name,
                        record_type |-> RecordTypeFrom(U16(data[n.next + 1], data[n.next + 2])),
                        class |-> U16(data[n.next + 3], data[n.next + 4])],
          next |-> n.next + 4]

\* parse_question(data, offset): None, or Some((question, next offset))
parse_question(data, offset) == QuestionAfterName(data, parse_domain_name(data, offset))

\* the display string of a CNAME, NS or PTR answer whose rdata decodes to n,
\* lines 159-163
DomainStr(n) ==
    IF n.some THEN [fmt |-> "{}", args |-> n.name]
    ELSE [fmt |-> "Invalid domain name", args |-> <<>>]

\* the display string of an answer, lines 138-166: the format chosen and its
\* arguments
DataStr(data, offset, record_type, record_data) ==
    CASE record_type = <<"A">> ->
            IF Len(record_data) = 4
            THEN [fmt |-> "{}.{}.{}.{}", args |-> record_data]
            ELSE [fmt |-> "Invalid A record", args |-> <<>>]
      [] record_type = <<"AAAA">> ->
            IF Len(record_data) = 16
            THEN [fmt |-> "{:x}:{:x}:{:x}:{:x}:{:x}:{:x}:{:x}:{:x}",
                  args |-> [i \in 1..8 |-> U16(record_data[2 * i - 1], record_data[2 * i])]]
            ELSE [fmt |-> "Invalid AAAA record", args |-> <<>>]
      [] record_type \in {<<"CNAME">>, <<"NS">>, <<"PTR">>} ->
            DomainStr(parse_domain_name(data, offset + 10))
      [] OTHER -> [fmt |-> "<{} bytes of data>", args |-> <<Len(record_data)>>]

\* parse_answer once parse_domain_name has returned n, lines 113-178
AnswerAfterName(data, n) ==
        IF ~n.some THEN [some |-> FALSE]
        ELSE IF n.next + 10 > Len(data) THEN [some |-> FALSE]
        ELSE LET o == n.next
                 record_type == RecordTypeFrom(U16(data[o + 1], data[o + 2]))
                 class == U16(data[o + 3], data[o + 4])
                 \* u32::from_be_bytes, kept as its high and low 16 bits
                 ttl == <<U16(data[o + 5], data[o + 6]), U16(data[o + 7], data[o + 8])>>
                 data_len == U16(data[o + 9], data[o + 10])
             IN  IF o + 10 + data_len > Len(data) THEN [some |-> FALSE]
                 ELSE LET record_data == Slice(data, o + 10, o + 10 + data_len)
                      IN  [some |-> TRUE,
                           answer |-> [name |-> n.name,
                                       record_type |-> record_type,
                                       class |-> class,
                                       ttl |-> ttl,
                                       data |-> record_data,
                                       data_str |-> DataStr(data, o, record_type, record_data)],
                           next |-> o + 10 + data_len]

\* parse_answer(data, offset): None, or Some((answer, next offset))
parse_answer(data, offset) == AnswerAfterName(data, parse_domain_name(data, offset))

RECURSIVE QuestionLoop(_, _, _, _)
\* one turn of the question loop once parse_question has returned q,
\* lines 210-216
QuestionTurn(data, offset, left, questions, q) ==
    IF q.some
    THEN QuestionLoop(data, q.next, left - 1, Append(questions, q.question))
    ELSE [ok |-> FALSE, questions |-> questions, offset |-> offset]

\* the question loop of parse, lines 209-217, with `left` questions to go
QuestionLoop(data, offset, left, questions) ==
    IF left = 0 THEN [ok |-> TRUE, questions |-> questions, offset |-> offset]
    ELSE QuestionTurn(data, offset, left, questions, parse_question(data, offset))

\* the answer loop of parse, lines 222-236, with `left` answers to go; failed
\* tells whether a parse_answer call returned None, attempts counts the calls
RECURSIVE AnswerLoop(_, _, _, _, _)
\* one turn of the answer loop once parse_answer has returned a, lines 223-235
AnswerTurn(data, left, answers, attempts, a) ==
    IF a.some
    THEN AnswerLoop(data, a.next, left - 1, Append(answers, a.answer), attempts + 1)
    ELSE [failed |-> TRUE, answers |-> answers, attempts |-> attempts + 1]

AnswerLoop(data, offset, left, answers, attempts) ==
    IF left = 0 THEN [failed |-> FALSE, answers |-> answers, attempts |-> attempts]
    ELSE AnswerTurn(data, left, answers, attempts, parse_answer(data, offset))

\* a parse that counts the queries it returns and not the responses
ParseSuccessCountsQueriesOnly(data, questions, answers, stats) ==
    LET flags == U16(data[3], data[4])
        message_type == IF flags \div 32768 = 1 THEN "Response" ELSE "Query"
        stats1 == Increment(stats, "dns.udp.parsed")
    IN  [some |-> TRUE,
         message |-> [transaction_id |-> U16(data[1], data[2]),
                      message_type |-> message_type,
                      questions |-> questions,
                      answers |-> answers,
                      timestamp |-> 0,
                      protocol |-> "Udp"],
         stats |-> IF message_type = "Query"
                   THEN Increment(stats1, "dns.udp.query")
                   ELSE stats1]

\* the statistics and the message of a parse that gets past both loops,
\* lines 240-256
ParseSuccess(data, questions, answers, stats) ==
    LET flags == U16(data[3], data[4])
        message_type == IF flags \div 32768 = 1 THEN "Response" ELSE "Query"
        stats1 == Increment(stats, "dns.udp.parsed")
    IN  [some |-> TRUE,
         message |-> [transaction_id |-> U16(data[1], data[2]),
                      message_type |-> message_type,
                      questions |-> questions,
                      answers |-> answers,
                      timestamp |-> 0,
                      protocol |-> "Udp"],
         stats |-> IF message_type = "Query"
                   THEN Increment(stats1, "dns.udp.query")
                   ELSE Increment(stats1, "dns.udp.response")]

\* a parse that fails the whole message when an answer fails, questions or not
AfterAnswersAllOrNothing(data, questions, a, stats) ==
    [answer_attempts |-> a.attempts] @@
    IF a.failed
    THEN [some |-> FALSE, stats |-> Increment(stats, "dns.udp.parse_failed")]
    ELSE ParseSuccess(data, questions, a.answers, stats)

\* what parse does once its answer loop has ended, lines 226-236;
\* answer_attempts records how many times the loop called parse_answer
AfterAnswers(data, questions, a, stats) ==
    [answer_attempts |-> a.attempts] @@
    IF a.failed
    THEN IF questions # <<>>
         THEN ParseSuccess(data, questions, a.answers,
                           Increment(stats, "dns.udp.parse_answer_failed"))
         ELSE [some |-> FALSE, stats |-> Increment(stats, "dns.udp.parse_failed")]
    ELSE ParseSuccess(data, questions, a.answers, stats)

\* a parse that treats a failed question as it treats a failed answer: it
\* goes on with the questions parsed so far
AfterQuestionsKeepsPartial(data, q, stats) ==
    AfterAnswers(data, q.questions,
                 AnswerLoop(data, q.offset, U16(data[7], data[8]), <<>>, 0),
                 IF q.ok THEN stats ELSE Increment(stats, "dns.udp.parse_question_failed"))

\* what parse does once its question loop has ended, lines 213-222
AfterQuestions(data, q, stats) ==
    IF ~q.ok
    THEN [some |-> FALSE, stats |-> Increment(stats, "dns.udp.parse_question_failed")]
    ELSE AfterAnswers(data, q.questions,
                      AnswerLoop(data, q.offset, U16(data[7], data[8]), <<>>, 0),
                      stats)

\* UdpDnsParser::parse(data, stats) of a parser built with max_packet_size:
\* None or Some(message), and the statistics after the call
parse(max_packet_size, data, stats) ==
    IF Len(data) < 12 \/ Len(data) > max_packet_size
    THEN [some |-> FALSE, stats |-> Increment(stats, "dns.udp.invalid_size")]
    ELSE AfterQuestions(data, QuestionLoop(data, 12, U16(data[5], data[6]), <<>>), stats)

(***************************************************************************)
(* Session tables.  A table is a function from the flows that have a       *)
(* session to the session; each session has a last_seen field.             *)
(***************************************************************************)
\* u64::saturating_sub
SaturatingSub(a, b) == IF a > b THEN a - b ELSE 0

\* HashMap::retain(|_, session| session.last_seen > expired_time)
Retain(table, expired_time) ==
    [k \in {f \in DOMAIN table : table[f].last_seen > expired_time} |-> table[k]]

\* HashMap::remove
Remove(table, key) == [k \in DOMAIN table \ {key} |-> table[k]]

\* HashMap::insert of a key the table does not hold
Insert(table, key, session) ==
    [k \in DOMAIN table \cup {key} |-> IF k = key THEN session ELSE table[k]]

\* the keys iter().min_by_key(|(_, s)| s.last_seen) can return: the iteration
\* order of a HashMap is unspecified, so any session of least last_seen
Oldest(table) ==
    {k \in DOMAIN table : \A j \in DOMAIN table : table[k].last_seen <= table[j].last_seen}

\* removing the oldest session of a table that has one (tcp.rs lines 73-79):
\* the tables that can result
RemoveOldest(table) ==
    IF DOMAIN table = {} THEN {table} ELSE {Remove(table, k) : k \in Oldest(table)}

\* making room before a session is inserted (tcp.rs lines 68-81): idle
\* sessions go first, then the oldest one if the table is still full
MakeRoom(table, max_sessions, expired_time) ==
    IF Cardinality(DOMAIN table) >= max_sessions
    THEN LET kept == Retain(table, expired_time)
         IN  IF Cardinality(DOMAIN kept) >= max_sessions
             THEN RemoveOldest(kept)
             ELSE {kept}
    ELSE {table}

(***************************************************************************)
(* TcpDnsParser (src/protocols/dns/tcp.rs).                                *)
(***************************************************************************)
\* TcpDnsParser::new
TcpNew(max_packet_size, max_sessions, session_timeout_ms) ==
    [tcp_sessions |-> <<>>,
     max_packet_size |-> max_packet_size,
     max_sessions |-> max_sessions,
     session_timeout_ms |-> session_timeout_ms,
     current_time_ms |-> 0]

\* TcpDnsParser::cleanup_sessions
TcpCleanupSessions(p) ==
    [p EXCEPT !.tcp_sessions =
        Retain(@, SaturatingSub(p.current_time_ms, p.session_timeout_ms))]

\* update_time that sets the clock and leaves the table as it is
TcpUpdateTimeKeepsSessions(p, time_ms) == [p EXCEPT !.current_time_ms = time_ms]

\* TcpDnsParser::update_time
TcpUpdateTime(p, time_ms) == TcpCleanupSessions([p EXCEPT !.current_time_ms = time_ms])

\* the closure of or_insert_with, lines 66-87: the tables that can result
\* from getting or creating the session of session_id
TcpEntry(p, session_id) ==
    IF session_id \in DOMAIN p.tcp_sessions
    THEN {p.tcp_sessions}
    ELSE {Insert(t, session_id, [buffer |-> <<>>, last_seen |-> p.current_time_ms]) :
            t \in MakeRoom(p.tcp_sessions, p.max_sessions,
                           SaturatingSub(p.current_time_ms, p.session_timeout_ms))}

RECURSIVE ExtractLoop(_, _, _, _)
\* one extraction once parse has returned r for the message of
\* message_length bytes at the head of the buffer, lines 113-120
ExtractTurn(max_packet_size, buffer, message_length, results, r) ==
    ExtractLoop(max_packet_size,
                Slice(buffer, message_length + 2, Len(buffer)),
                IF r.some
                THEN Append(results, [r.message EXCEPT !.protocol = "Tcp"])
                ELSE results,
                r.stats)

\* the extraction loop, lines 103-125
ExtractLoop(max_packet_size, buffer, results, stats) ==
    IF Len(buffer) >= 2
    THEN LET message_length == U16(buffer[1], buffer[2])
         IN  IF Len(buffer) >= message_length + 2
             THEN ExtractTurn(max_packet_size, buffer, message_length, results,
                              parse(max_packet_size,
                                    Slice(buffer, 2, message_length + 2), stats))
             ELSE [buffer |-> buffer, results |-> results, stats |-> stats]
    ELSE [buffer |-> buffer, results |-> results, stats |-> stats]

\* a reassembler that forgets what the extraction loop left in the buffer
TcpExtractedDropsRemainder(p, table, session_id, e) ==
    [parser |-> [p EXCEPT !.tcp_sessions =
                    [table EXCEPT ![session_id] =
                        [buffer |-> <<>>, last_seen |-> p.current_time_ms]]],
     results |-> e.results,
     stats |-> e.stats]

\* a reassembler that stamps every session of the table with the clock
TcpExtractedTouchesAll(p, table, session_id, e) ==
    [parser |-> [p EXCEPT !.tcp_sessions =
                    [k \in DOMAIN table |->
                        [buffer |-> IF k = session_id THEN e.buffer ELSE table[k].buffer,
                         last_seen |-> p.current_time_ms]]],
     results |-> e.results,
     stats |-> e.stats]

\* the outcome of a call whose extraction loop ended with e, lines 90 and 127
TcpExtracted(p, table, session_id, e) ==
    [parser |-> [p EXCEPT !.tcp_sessions =
                    [table EXCEPT ![session_id] =
                        [buffer |-> e.buffer, last_seen |-> p.current_time_ms]]],
     results |-> e.results,
     stats |-> e.stats]

\* an overflow that leaves the buffer as it was before the append
TcpOverflowKeepsBuffer(p, table, session_id, stats) ==
    [parser |-> [p EXCEPT !.tcp_sessions =
                    [table EXCEPT ![session_id].last_seen = p.current_time_ms]],
     results |-> <<>>,
     stats |-> Increment(stats, "dns.tcp.buffer_overflow")]

\* the outcome of a call whose append overflowed the buffer, lines 96-100
TcpOverflow(p, table, session_id, stats) ==
    [parser |-> [p EXCEPT !.tcp_sessions =
                    [table EXCEPT ![session_id] =
                        [buffer |-> <<>>, last_seen |-> p.current_time_ms]]],
     results |-> <<>>,
     stats |-> Increment(stats, "dns.tcp.buffer_overflow")]

\* an append without the size check of lines 96-100
TcpAppendUnchecked(p, table, session_id, data, stats) ==
    TcpExtracted(p, table, session_id,
                 ExtractLoop(p.max_packet_size, table[session_id].buffer \o data,
                             <<>>, stats))

\* lines 89-127 on the session of session_id in table
TcpAppend(p, table, session_id, data, stats) ==
    IF Len(table[session_id].buffer \o data) > p.max_packet_size
    THEN TcpOverflow(p, table, session_id, stats)
    ELSE TcpExtracted(p, table, session_id,
                      ExtractLoop(p.max_packet_size, table[session_id].buffer \o data,
                                  <<>>, stats))

\* TcpDnsParser::process_tcp_segment: the outcomes it can have, each the
\* parser, the messages returned and the statistics after the call
process_tcp_segment(p, session_id, data, stats) ==
    {TcpAppend(p, table, session_id, data, stats) : table \in TcpEntry(p, session_id)}

(***************************************************************************)
(* DotParser (src/protocols/dns/dot.rs).                                   *)
(***************************************************************************)
\* DotParser::new
DotNew(max_packet_size, max_sessions, session_timeout_ms) ==
    [tcp_parser |-> TcpNew(max_packet_size, max_sessions, session_timeout_ms),
     tls_sessions |-> <<>>,
     max_sessions |-> max_sessions,
     session_timeout_ms |-> session_timeout_ms,
     current_time_ms |-> 0]

\* DotParser::cleanup_sessions
DotCleanupSessions(p) ==
    [p EXCEPT !.tls_sessions =
        Retain(@, SaturatingSub(p.current_time_ms, p.session_timeout_ms))]

\* DotParser::update_time
DotUpdateTime(p, time_ms) ==
    DotCleanupSessions([p EXCEPT !.current_time_ms = time_ms,
                                 !.tcp_parser = TcpUpdateTime(@, time_ms)])

\* the closure of or_insert_with, lines 76-98: the tables that can result
DotEntry(p, session_id) ==
    IF session_id \in DOMAIN p.tls_sessions
    THEN {p.tls_sessions}
    ELSE {Insert(t, session_id,
                 [buffer |-> <<>>, state |-> "Handshake", last_seen |-> p.current_time_ms]) :
            t \in MakeRoom(p.tls_sessions, p.max_sessions,
                           SaturatingSub(p.current_time_ms, p.session_timeout_ms))}

\* DotParser::decrypt_tls_data
decrypt_tls_data(data) == data

\* messages that keep the protocol the TCP reassembler gave them
RetagKeepsProtocol(results, protocol) == results

\* the messages with their protocol rewritten, lines 129-131
Retag(results, protocol) == [i \in 1..Len(results) |-> [results[i] EXCEPT !.protocol = protocol]]

\* a reassembler that closes an established session on a packet longer than
\* max_packet_size
DotHandleClosesOnOversize(p, table, session_id, data, stats) ==
    LET seen == [table EXCEPT ![session_id].last_seen = p.current_time_ms]
        state == table[session_id].state
    IN  CASE state = "Handshake" ->
                {[parser |-> [p EXCEPT !.tls_sessions =
                                [seen EXCEPT ![session_id].state = "Established"]],
                  results |-> <<>>,
                  stats |-> Increment(stats, "dns.dot.handshake_completed")]}
          [] state = "Established" /\ Len(data) > p.tcp_parser.max_packet_size ->
                {[parser |-> [p EXCEPT !.tls_sessions =
                                [seen EXCEPT ![session_id].state = "Closed"]],
                  results |-> <<>>,
                  stats |-> stats]}
          [] state = "Established" /\ Len(data) <= p.tcp_parser.max_packet_size ->
                {[parser |-> [p EXCEPT !.tls_sessions = seen, !.tcp_parser = o.parser],
                  results |-> Retag(o.results, "Dot"),
                  stats |-> o.stats] :
                    o \in process_tcp_segment(p.tcp_parser, session_id,
                                              decrypt_tls_data(data), stats)}
          [] state = "Closed" ->
                {[parser |-> [p EXCEPT !.tls_sessions = seen],
                  results |-> <<>>,
                  stats |-> Increment(stats, "dns.dot.data_after_close")]}

\* lines 100-133 on the session of session_id in table: the outcomes
DotHandle(p, table, session_id, data, stats) ==
    LET seen == [table EXCEPT ![session_id].last_seen = p.current_time_ms]
        state == table[session_id].state
    IN  CASE state = "Handshake" ->
                {[parser |-> [p EXCEPT !.tls_sessions =
                                [seen EXCEPT ![session_id].state = "Established"]],
                  results |-> <<>>,
                  stats |-> Increment(stats, "dns.dot.handshake_completed")]}
          [] state = "Established" ->
                {[parser |-> [p EXCEPT !.tls_sessions = seen, !.tcp_parser = o.parser],
                  results |-> Retag(o.results, "Dot"),
                  stats |-> o.stats] :
                    o \in process_tcp_segment(p.tcp_parser, session_id,
                                              decrypt_tls_data(data), stats)}
          [] state = "Closed" ->
                {[parser |-> [p EXCEPT !.tls_sessions = seen],
                  results |-> <<>>,
                  stats |-> Increment(stats, "dns.dot.data_after_close")]}

\* DotParser::process_tls_data: the outcomes it can have
process_tls_data(p, session_id, data, stats) ==
    UNION {DotHandle(p, table, session_id, data, stats) : table \in DotEntry(p, session_id)}

(***************************************************************************)
(* DoqParser (src/protocols/dns/doq.rs).                                   *)
(***************************************************************************)
\* DoqParser::new
DoqNew(max_packet_size, max_sessions, session_timeout_ms) ==
    [max_packet_size |-> max_packet_size,
     quic_sessions |-> <<>>,
     max_sessions |-> max_sessions,
     session_timeout_ms |-> session_timeout_ms,
     current_time_ms |-> 0]

\* DoqParser::cleanup_sessions
DoqCleanupSessions(p) ==
    [p EXCEPT !.quic_sessions =
        Retain(@, SaturatingSub(p.current_time_ms, p.session_timeout_ms))]

\* DoqParser::update_time
DoqUpdateTime(p, time_ms) == DoqCleanupSessions([p EXCEPT !.current_time_ms = time_ms])

\* lines 74-92: room is made whenever the table is full, whether or not
\* session_id has a session, and then the session is got or created
DoqEntry(p, session_id) ==
    {IF session_id \in DOMAIN t
     THEN t
     ELSE Insert(t, session_id,
                 [buffer |-> <<>>, state |-> "Handshake", last_seen |-> p.current_time_ms]) :
        t \in MakeRoom(p.quic_sessions, p.max_sessions,
                       SaturatingSub(p.current_time_ms, p.session_timeout_ms))}

\* DoqParser::decrypt_quic_data
decrypt_quic_data(data) == data

\* the outcome of a packet of an established session once parse has returned
\* r, lines 111-116
DoqParsed(p, r) ==
    [parser |-> p,
     results |-> IF r.some THEN <<[r.message EXCEPT !.protocol = "Doq"]>> ELSE <<>>,
     stats |-> r.stats]

\* a reassembler that hands the packet that completes the handshake to the
\* decoder as well
DoqHandleDecodesFirst(p, table, session_id, data, stats) ==
    LET seen == [table EXCEPT ![session_id].last_seen = p.current_time_ms,
                              ![session_id].state = "Established"]
        state == table[session_id].state
    IN  IF state = "Closed"
        THEN [parser |-> [p EXCEPT !.quic_sessions = seen],
              results |-> <<>>,
              stats |-> Increment(stats, "dns.doq.data_after_close")]
        ELSE DoqParsed([p EXCEPT !.quic_sessions = seen],
                       parse(p.max_packet_size, decrypt_quic_data(data),
                             IF state = "Handshake"
                             THEN Increment(stats, "dns.doq.handshake_completed")
                             ELSE stats))

\* lines 94-125 on the session of session_id in table
DoqHandle(p, table, session_id, data, stats) ==
    LET seen == [table EXCEPT ![session_id].last_seen = p.current_time_ms]
        state == table[session_id].state
    IN  CASE state = "Handshake" ->
                [parser |-> [p EXCEPT !.quic_sessions =
                               [seen EXCEPT ![session_id].state = "Established"]],
                 results |-> <<>>,
                 stats |-> Increment(stats, "dns.doq.handshake_completed")]
          [] state = "Established" ->
                DoqParsed([p EXCEPT !.quic_sessions = seen],
                          parse(p.max_packet_size, decrypt_quic_data(data), stats))
          [] state = "Closed" ->
                [parser |-> [p EXCEPT !.quic_sessions = seen],
                 results |-> <<>>,
                 stats |-> Increment(stats, "dns.doq.data_after_close")]

\* DoqParser::process_quic_data: the outcomes it can have
process_quic_data(p, session_id, data, stats) ==
    {DoqHandle(p, table, session_id, data, stats) : table \in DoqEntry(p, session_id)}

(***************************************************************************)
(* DohParser (src/protocols/dns/doh.rs).  No method writes a field of the  *)
(* parser after new: http_sessions stays empty.                            *)
(***************************************************************************)
\* DohParser::new
DohNew(max_packet_size) ==
    [max_packet_size |-> max_packet_size, http_sessions |-> <<>>]

\* DohParser::extract_dns_data
extract_dns_data(data) == [some |-> TRUE, dns_data |-> data]

\* the outcome of process_http_data once parse has returned r, lines 57-62
DohParsed(p, r) ==
    [parser |-> p,
     results |-> IF r.some THEN <<r.message>> ELSE <<>>,
     stats |-> r.stats]

\* DohParser::process_http_data
process_http_data(p, session_id, data, stats) ==
    IF extract_dns_data(data).some
    THEN DohParsed(p, parse(p.max_packet_size, extract_dns_data(data).dns_data, stats))
    ELSE [parser |-> p, results |-> <<>>, stats |-> stats]

(***************************************************************************)
(* The reassemblers are driven by calls with flows drawn from Flows and    *)
(* byte slices drawn from Segments.  The three reassemblers share no       *)
(* state: a run drives one of them.                                        *)
(***************************************************************************)
\* (src_ip, dst_ip, src_port, dst_port)
Flows == {<<1, 9, 1000, 53>>, <<1, 9, 1001, 53>>, <<2, 9, 1000, 53>>}

\* max_packet_size + 1 bytes
OverflowSegment == [i \in 1..(MaxPacketSize + 1) |-> 1]

\* one byte, which starts a length prefix no buffer can complete, and a
\* segment that overflows any buffer
Segments == {<<1>>, OverflowSegment}

\* a one-question query, the message of the spec's first scenario with the
\* name "a"
MinimalQuery == <<18, 52, 1, 0, 0, 1, 0, 0, 0, 0, 0, 0, 1, 97, 0, 0, 1, 0, 1>>

\* what is handed to the DoQ reassembler: a datagram too short for a
\* message, and a message
Datagrams == {<<1>>, MinimalQuery}

\* the flows handed to the DoT reassembler
DotFlows == {<<1, 9, 1000, 53>>, <<1, 9, 1001, 53>>}

\* a response to MinimalQuery: the question, and an A record whose name is a
\* compression pointer to the question's
MinimalResponse ==
    <<18, 52, 129, 128, 0, 1, 0, 1, 0, 0, 0, 0, 1, 97, 0, 0, 1, 0, 1,
      192, 12, 0, 1, 0, 1, 0, 0, 0, 60, 0, 4, 93, 184, 216, 34>>

\* the well-formed messages streams are made of
StreamMessages == {MinimalQuery, MinimalResponse}

\* a message as it travels on TCP: a 2-byte big-endian length, then the message
Framed(m) == <<Len(m) \div 256, Len(m) % 256>> \o m

RECURSIVE FramedAll(_)
FramedAll(ms) == IF ms = <<>> THEN <<>> ELSE Framed(Head(ms)) \o FramedAll(Tail(ms))

\* the flow a stream is fed on
StreamFlow == <<1, 9, 1000, 53>>

\* a stream before any of it is fed: messages are the stream's messages, fed
\* counts the bytes handed over, emitted collects the messages returned, last
\* is what the latest call returned, overflowed tells whether a segment made
\* the buffer longer than max_packet_size, cut_in_prefix whether a segment
\* ended between the two bytes of a length prefix
StartFeed(ms) ==
    [messages |-> ms, fed |-> 0, emitted |-> <<>>, last |-> <<>>,
     overflowed |-> FALSE, cut_in_prefix |-> FALSE]

NoFeed == StartFeed(<<>>)

NoCall == [op |-> "none"]

\* the record of a call: fresh tells whether the flow had no session when the
\* call was made, size_before how many sessions the table held
Called(op, flow, data, table, outcome) ==
    [op |-> op, flow |-> flow, data |-> data,
     fresh |-> flow \notin DOMAIN table,
     size_before |-> Cardinality(DOMAIN table),
     results |-> outcome.results, stats |-> outcome.stats]

\* what is recorded of an update_time call: its argument, and the flows of
\* the table that had been idle for longer than the timeout when it was made
TimeUpdated(time_ms, table, session_timeout_ms) ==
    [op |-> "update_time", time_ms |-> time_ms,
     expired |-> {k \in DOMAIN table : table[k].last_seen < time_ms - session_timeout_ms}]

(***************************************************************************)
(* Messages handed to parse: a 12-byte header whose qdcount and ancount    *)
(* are chosen freely, followed by up to MaxRecords records, well-formed or *)
(* not; and two slices shorter than a header.                              *)
(***************************************************************************)
\* the parser the driver builds: UdpDnsParser::new(65535)
udp_max_packet_size == 65535

Header(id, flags, qdcount, ancount) ==
    <<id \div 256, id % 256, flags \div 256, flags % 256,
      qdcount \div 256, qdcount % 256, ancount \div 256, ancount % 256, 0, 0, 0, 0>>

\* the name "a", and a compression pointer to offset 12 (the first name of a
\* message; a pointer to itself when it is that first name)
NameA == <<1, 97, 0>>
\* the name "A", in upper case on the wire
NameUpperA == <<1, 65, 0>>
PointerTo12 == <<192, 12>>

QuestionBytes(name) == name \o <<0, 1, 0, 1>>

AnswerBytes(name, type, rdlength, rdata) ==
    name \o <<0, type, 0, 1, 0, 0, 0, 60, 0, rdlength>> \o rdata

Records ==
    {QuestionBytes(NameA),
     QuestionBytes(NameUpperA),
     QuestionBytes(PointerTo12),
     <<1, 97, 0, 0, 1>>,                              \* a question cut short
     AnswerBytes(PointerTo12, 1, 4, <<1, 2, 3, 4>>),
     AnswerBytes(PointerTo12, 1, 9, <<1, 2>>),        \* rdlength past the end
     AnswerBytes(NameA, 5, 2, PointerTo12)}

RECURSIVE Concat(_)
Concat(seqs) == IF seqs = <<>> THEN <<>> ELSE Head(seqs) \o Concat(Tail(seqs))

ParseInputs ==
    {Header(id, flags, qd, an) \o Concat(rs) :
        id \in {4660}, flags \in {256, 33152}, qd \in 0..MaxCount, an \in 0..MaxCount,
        rs \in SeqsUpTo(Records, MaxRecords)}
    \cup {<<>>, [i \in 1..11 |-> 0]}

NoReturn == [done |-> FALSE]

\* pkt was not encoded from a message
NoSent == [encoded |-> FALSE]

ParseIdle == pkt = <<>> /\ sent = NoSent /\ ret = NoReturn

\* the driver when it is not run
NoDriver == [running |-> FALSE]

\* no output manager and no capture backend either
NoOutput == [outputs |-> <<>>]

NoCapture == [kind |-> "none"]

\* no process_tcp_segment call is under way
ExtractIdle == [pc |-> "idle"]

\* no reassembler is driven
ReassemblersIdle ==
    /\ driven = "none"
    /\ tcp = TcpNew(0, 0, 0)
    /\ dot = DotNew(0, 0, 0)
    /\ doq = DoqNew(0, 0, 0)
    /\ offered = <<>>
    /\ feed = NoFeed
    /\ driver = NoDriver
    /\ output = NoOutput
    /\ capture = NoCapture
    /\ ex = ExtractIdle
    /\ call = NoCall

InitParse ==
    /\ pkt \in ParseInputs
    /\ sent = NoSent
    /\ ret = NoReturn
    /\ nd = NameIdle
    /\ ReassemblersIdle

\* one call of parse on pkt, with statistics that start empty
Parse ==
    /\ ~ret.done
    /\ ret' = [done |-> TRUE] @@ parse(udp_max_packet_size, pkt, StatsNew)
    /\ UNCHANGED <<nd, pkt, sent, driven, tcp, dot, doq, offered, feed, driver, output, capture, ex, call>>

NextParse == Parse

SpecParse == InitParse /\ [][NextParse]_vars

(***************************************************************************)
(* The records of pkt as parse walks them: its i-th question and its j-th  *)
(* answer start where the record before ended; -1 when an earlier record   *)
(* does not parse.                                                         *)
(***************************************************************************)
QdCount == U16(pkt[5], pkt[6])
AnCount == U16(pkt[7], pkt[8])
SizeAccepted == Len(pkt) >= 12 /\ Len(pkt) <= udp_max_packet_size

RECURSIVE QuestionOffset(_)
QuestionOffset(i) ==
    IF i = 1 THEN 12
    ELSE LET o == QuestionOffset(i - 1)
         IN  IF o = -1 THEN -1
             ELSE IF parse_question(pkt, o).some THEN parse_question(pkt, o).next ELSE -1

RECURSIVE AnswerOffset(_)
AnswerOffset(j) ==
    IF j = 1 THEN QuestionOffset(QdCount + 1)
    ELSE LET o == AnswerOffset(j - 1)
         IN  IF o = -1 THEN -1
             ELSE IF parse_answer(pkt, o).some THEN parse_answer(pkt, o).next ELSE -1

QuestionFailsAt(i) ==
    QuestionOffset(i) # -1 /\ ~parse_question(pkt, QuestionOffset(i)).some

AnswerFailsAt(k) ==
    AnswerOffset(k) # -1 /\ ~parse_answer(pkt, AnswerOffset(k)).some

(***************************************************************************)
(* C7: parse never returns a message whose questions and answers are both  *)
(* empty, and rejects a message whose header says qdcount = 0 and          *)
(* ancount = 0.                                                            *)
(***************************************************************************)
C7_NoEmptyMessage ==
    ret.done =>
        /\ ret.some => (ret.message.questions # <<>> \/ ret.message.answers # <<>>)
        /\ (SizeAccepted /\ QdCount = 0 /\ AnCount = 0) =>
               (~ret.some /\ ret.stats["dns.udp.parsed"] = 0)

(***************************************************************************)
(* C9: when all qdcount >= 1 questions parse and the k-th answer is the    *)
(* first that does not, parse returns a message with all the questions and *)
(* exactly the k-1 answers before it, increments                           *)
(* dns.udp.parse_answer_failed once, and does not call parse_answer again. *)
(***************************************************************************)
C9_PartialAnswers ==
    (ret.done /\ SizeAccepted /\ QdCount >= 1) =>
        \A k \in 1..AnCount :
            AnswerFailsAt(k) =>
                /\ ret.some
                /\ Len(ret.message.questions) = QdCount
                /\ \A i \in 1..QdCount :
                       ret.message.questions[i] = parse_question(pkt, QuestionOffset(i)).question
                /\ Len(ret.message.answers) = k - 1
                /\ \A j \in 1..(k - 1) :
                       ret.message.answers[j] = parse_answer(pkt, AnswerOffset(j)).answer
                /\ ret.stats["dns.udp.parse_answer_failed"] = 1
                /\ ret.stats["dns.udp.parse_failed"] = 0
                /\ ret.answer_attempts = k

\* one question, a first answer that parses, a second whose rdlength runs past
\* the end of the slice: the message holds the question and the first answer
C9_Witness ==
    /\ ret.done
    /\ pkt = Header(4660, 33152, 1, 2) \o QuestionBytes(NameA)
                \o AnswerBytes(PointerTo12, 1, 4, <<1, 2, 3, 4>>)
                \o AnswerBytes(PointerTo12, 1, 9, <<1, 2>>)
    /\ AnswerFailsAt(2)
    /\ ret.some
    /\ Len(ret.message.answers) = 1
    /\ ret.stats["dns.udp.parse_answer_failed"] = 1

(***************************************************************************)
(* C10: when one of the qdcount questions does not parse, parse returns    *)
(* None, no message at all, and increments dns.udp.parse_question_failed   *)
(* (once, and no other counter).                                           *)
(***************************************************************************)
C10_QuestionFailureFailsMessage ==
    (ret.done /\ SizeAccepted /\ \E i \in 1..QdCount : QuestionFailsAt(i)) =>
        /\ ~ret.some
        /\ "message" \notin DOMAIN ret
        /\ ret.stats = Increment(StatsNew, "dns.udp.parse_question_failed")

\* the first question's name is a pointer to itself
C10_Witness ==
    /\ ret.done
    /\ pkt = Header(4660, 256, 1, 0) \o QuestionBytes(PointerTo12)
    /\ QuestionFailsAt(1)
    /\ ~ret.some
    /\ ret.stats["dns.udp.parse_question_failed"] = 1

\* name holds no upper-case letter
Lowercased(name) == \A i \in 1..Len(name) : name[i] \notin 65..90

\* the dots of name stand between labels: none begins or ends it and no two
\* are adjacent
SingleDots(name) ==
    /\ name # <<>> => name[1] # 46 /\ name[Len(name)] # 46
    /\ \A i \in 1..(Len(name) - 1) : ~(name[i] = 46 /\ name[i + 1] = 46)

(***************************************************************************)
(* C12: every name in a decoded DnsQuestion is lowercased, has single dots *)
(* between its labels and no trailing dot, whatever the case of the label  *)
(* bytes on the wire.                                                      *)
(***************************************************************************)
C12_QuestionNamesLowercased ==
    (ret.done /\ ret.some) =>
        \A i \in 1..Len(ret.message.questions) :
            /\ Lowercased(ret.message.questions[i].name)
            /\ SingleDots(ret.message.questions[i].name)

(***************************************************************************)
(* Messages in RFC 1035 wire format.  A message to encode has a            *)
(* transaction_id, a message_type and questions; a question has its name   *)
(* as a sequence of labels, a record_type and a class.  A response carries *)
(* one A record for the name of its first question.                        *)
(***************************************************************************)
\* most labels in a name of a message that is encoded
MaxLabels == 2
\* most questions in a message that is encoded
MaxQuestions == 2

\* "a" and "bc"
WireLabels == {<<97>>, <<98, 99>>}

WireNames == SeqsUpTo(WireLabels, MaxLabels)

WireTypes == {<<"A">>, <<"Other", 99>>}

WireQuestions == [labels : WireNames, record_type : WireTypes, class : {1}]

WireMessages ==
    [transaction_id : {65535},
     message_type : {"Query", "Response"},
     questions : UNION {[1..k -> WireQuestions] : k \in 1..MaxQuestions}]

\* the number DnsRecordType::from turns into record_type
TypeCode(record_type) ==
    CASE record_type = <<"A">> -> 1
      [] record_type = <<"AAAA">> -> 28
      [] record_type = <<"CNAME">> -> 5
      [] record_type = <<"MX">> -> 15
      [] record_type = <<"NS">> -> 2
      [] record_type = <<"PTR">> -> 12
      [] record_type = <<"SOA">> -> 6
      [] record_type = <<"SRV">> -> 33
      [] record_type = <<"TXT">> -> 16
      [] OTHER -> record_type[2]

\* a name as a DnsQuestion holds it: the labels with dots between them
RECURSIVE Dotted(_)
Dotted(labels) ==
    IF labels = <<>> THEN <<>>
    ELSE IF Len(labels) = 1 THEN Head(labels)
    ELSE Head(labels) \o Dot \o Dotted(Tail(labels))

\* RFC 1035 section 3.1: each label as a length byte followed by its bytes
RECURSIVE EncodeLabels(_)
EncodeLabels(labels) ==
    IF labels = <<>> THEN <<>>
    ELSE <<Len(Head(labels))>> \o Head(labels) \o EncodeLabels(Tail(labels))

\* whether the labels of name end with the labels of suffix
EndsWith(name, suffix) ==
    /\ Len(suffix) <= Len(name)
    /\ SubSeq(name, Len(name) - Len(suffix) + 1, Len(name)) = suffix

\* a compression pointer to offset
PointerTo(offset) == <<192 + offset \div 256, offset % 256>>

\* whether a name is written compressed: RFC 1035 section 4.1.4 lets a name
\* that ends with a name written earlier end in a pointer to it; the earlier
\* name used is the name of the record before, prev
Compressed(labels, prev, compress) ==
    compress /\ prev # <<>> /\ EndsWith(labels, prev)

\* the name of a record: uncompressed it ends with the zero byte; compressed,
\* the part that is the earlier name is replaced by a pointer to prev_offset,
\* where that name was written
EncodeName(labels, prev, prev_offset, compress) ==
    IF Compressed(labels, prev, compress)
    THEN EncodeLabels(SubSeq(labels, 1, Len(labels) - Len(prev))) \o PointerTo(prev_offset)
    ELSE EncodeLabels(labels) \o <<0>>

EncodeQuestion(q, prev, prev_offset, compress) ==
    EncodeName(q.labels, prev, prev_offset, compress)
        \o <<TypeCode(q.record_type) \div 256, TypeCode(q.record_type) % 256,
             q.class \div 256, q.class % 256>>

\* the questions qs written from offset on, the record before them having
\* the name prev at prev_offset (no name when prev is empty)
RECURSIVE EncodeQuestions(_, _, _, _, _)
EncodeQuestions(qs, offset, prev, prev_offset, compress) ==
    IF qs = <<>> THEN <<>>
    ELSE LET bytes == EncodeQuestion(Head(qs), prev, prev_offset, compress)
         IN  bytes \o EncodeQuestions(Tail(qs), offset + Len(bytes),
                                      Head(qs).labels, offset, compress)

\* the A record a response carries: its name is that of the first question
EncodeAnswer(first, compress) ==
    EncodeName(first, first, 12, compress)
        \o <<0, 1, 0, 1, 0, 0, 0, 60, 0, 4, 93, 184, 216, 34>>

\* the wire format of message m
Encode(m, compress) ==
    LET response == m.message_type = "Response"
    IN  Header(m.transaction_id, IF response THEN 33152 ELSE 256,
               Len(m.questions), IF response THEN 1 ELSE 0)
        \o EncodeQuestions(m.questions, 12, <<>>, 0, compress)
        \o (IF response THEN EncodeAnswer(m.questions[1].labels, compress) ELSE <<>>)

\* a query with k questions, the i-th for the name of i labels "a": written
\* compressed, each name is one label and a pointer to the name before it
Nested(k) ==
    [transaction_id |-> 4660,
     message_type |-> "Query",
     questions |-> [i \in 1..k |->
                      [labels |-> [j \in 1..i |-> <<97>>], record_type |-> <<"A">>, class |-> 1]]]

\* a message is encoded, with or without compression, and handed to parse
InitWire ==
    /\ \E m \in WireMessages \cup {Nested(k) : k \in max_jumps..(max_jumps + 2)},
          compress \in BOOLEAN :
          /\ sent = [encoded |-> TRUE, message |-> m, compress |-> compress]
          /\ pkt = Encode(m, compress)
    /\ ret = NoReturn
    /\ nd = NameIdle
    /\ ReassemblersIdle

SpecWire == InitWire /\ [][NextParse]_vars

\* the questions of the message that was encoded, as DnsQuestions
SentQuestions ==
    [i \in 1..Len(sent.message.questions) |->
        [name |-> Dotted(sent.message.questions[i].labels),
         record_type |-> sent.message.questions[i].record_type,
         class |-> sent.message.questions[i].class]]

\* how many pointers decoding the name of the i-th question of the encoded
\* message follows
RECURSIVE Hops(_)
Hops(i) ==
    IF i > 1 /\ Compressed(sent.message.questions[i].labels,
                           sent.message.questions[i - 1].labels, sent.compress)
    THEN 1 + Hops(i - 1)
    ELSE 0

Init ==
    /\ driven \in {"tcp", "dot", "doq"}
    /\ \E m \in 0..MaxSessions :
          /\ tcp = TcpNew(MaxPacketSize, m, SessionTimeoutMs)
          /\ dot = DotNew(MaxPacketSize, m, SessionTimeoutMs)
          /\ doq = DoqNew(udp_max_packet_size, m, SessionTimeoutMs)
    /\ call = NoCall
    /\ offered = <<>>
    /\ feed = NoFeed
    /\ driver = NoDriver
    /\ output = NoOutput
    /\ capture = NoCapture
    /\ ex = ExtractIdle
    /\ nd = NameIdle
    /\ ParseIdle

TcpSegment(flow, data) ==
    /\ driven = "tcp"
    /\ \E o \in process_tcp_segment(tcp, flow, data, StatsNew) :
          /\ tcp' = o.parser
          /\ call' = Called("process_tcp_segment", flow, data, tcp.tcp_sessions, o)
    /\ UNCHANGED <<nd, pkt, sent, ret, driven, dot, doq, offered, feed, driver, output, capture, ex>>

TcpTime(time_ms) ==
    /\ driven = "tcp"
    /\ tcp' = TcpUpdateTime(tcp, time_ms)
    /\ call' = TimeUpdated(time_ms, tcp.tcp_sessions, tcp.session_timeout_ms)
    /\ UNCHANGED <<nd, pkt, sent, ret, driven, dot, doq, offered, feed, driver, output, capture, ex>>

TlsData(flow, data) ==
    /\ driven = "dot"
    /\ \E o \in process_tls_data(dot, flow, data, StatsNew) :
          /\ dot' = o.parser
          /\ call' = Called("process_tls_data", flow, data, dot.tls_sessions, o)
    /\ UNCHANGED <<nd, pkt, sent, ret, driven, tcp, doq, offered, feed, driver, output, capture, ex>>

DotTime(time_ms) ==
    /\ driven = "dot"
    /\ dot' = DotUpdateTime(dot, time_ms)
    /\ call' = TimeUpdated(time_ms, dot.tls_sessions, dot.session_timeout_ms)
    /\ UNCHANGED <<nd, pkt, sent, ret, driven, tcp, doq, offered, feed, driver, output, capture, ex>>

QuicData(flow, data) ==
    /\ driven = "doq"
    /\ \E o \in process_quic_data(doq, flow, data, StatsNew) :
          /\ doq' = o.parser
          /\ call' = Called("process_quic_data", flow, data, doq.quic_sessions, o)
    /\ UNCHANGED <<nd, pkt, sent, ret, driven, tcp, dot, offered, feed, driver, output, capture, ex>>

DoqTime(time_ms) ==
    /\ driven = "doq"
    /\ doq' = DoqUpdateTime(doq, time_ms)
    /\ call' = TimeUpdated(time_ms, doq.quic_sessions, doq.session_timeout_ms)
    /\ UNCHANGED <<nd, pkt, sent, ret, driven, tcp, dot, offered, feed, driver, output, capture, ex>>

Next ==
    \/ \E flow \in Flows, data \in Segments : TcpSegment(flow, data)
    \/ \E time_ms \in 0..MaxClock : TcpTime(time_ms)
    \/ \E flow \in DotFlows, data \in Segments : TlsData(flow, data)
    \/ \E time_ms \in 0..MaxClock : DotTime(time_ms)
    \/ \E flow \in Flows, data \in Datagrams : QuicData(flow, data)
    \/ \E time_ms \in 0..MaxClock : DoqTime(time_ms)

Spec == Init /\ [][Next]_vars

(***************************************************************************)
(* C2: after any sequence of process_tcp_segment, process_tls_data,        *)
(* process_quic_data and update_time calls, each session table (TCP, DoT   *)
(* and the TCP reassembler inside it, DoQ) holds at most max_sessions      *)
(* sessions.                                                               *)
(***************************************************************************)
C2_SessionCountBounded ==
    /\ Cardinality(DOMAIN tcp.tcp_sessions) <= tcp.max_sessions
    /\ Cardinality(DOMAIN dot.tls_sessions) <= dot.max_sessions
    /\ Cardinality(DOMAIN dot.tcp_parser.tcp_sessions) <= dot.tcp_parser.max_sessions
    /\ Cardinality(DOMAIN doq.quic_sessions) <= doq.max_sessions

\* the buffer the reassembler holds for flow, empty when it has no session
BufferOf(p, flow) ==
    IF flow \in DOMAIN p.tcp_sessions THEN p.tcp_sessions[flow].buffer ELSE <<>>

\* no session of p is idle-expired: none has last_seen < now - timeout
NoneIdleExpired(p) ==
    \A k \in DOMAIN p.tcp_sessions :
        ~(p.tcp_sessions[k].last_seen < p.current_time_ms - p.session_timeout_ms)

(***************************************************************************)
(* C4: when a segment for a new flow arrives at a TCP reassembler (one     *)
(* built to hold at least one session) whose table holds max_sessions      *)
(* sessions, none of them idle-expired, exactly one session is removed, it *)
(* is one of least last_seen, and every other session is kept unchanged.   *)
(***************************************************************************)
C4_FullTableEvictsExactlyOneOldest ==
    [][(/\ call'.op = "process_tcp_segment"
        /\ call'.fresh
        /\ tcp.max_sessions >= 1
        /\ call'.size_before = tcp.max_sessions
        /\ NoneIdleExpired(tcp))
       => \E k \in Oldest(tcp.tcp_sessions) :
            /\ DOMAIN tcp'.tcp_sessions = (DOMAIN tcp.tcp_sessions \ {k}) \cup {call'.flow}
            /\ \A j \in DOMAIN tcp.tcp_sessions \ {k} :
                  tcp'.tcp_sessions[j] = tcp.tcp_sessions[j]]_vars

\* the buffers of the sessions of TCP reassembler p are within its limit
BuffersBounded(p) ==
    \A k \in DOMAIN p.tcp_sessions : Len(p.tcp_sessions[k].buffer) <= p.max_packet_size

(***************************************************************************)
(* C5: at the return of every process_tcp_segment call, made directly or   *)
(* by process_tls_data, the buffer of every session is at most             *)
(* max_packet_size long.                                                   *)
(***************************************************************************)
C5_BuffersBounded ==
    /\ BuffersBounded(tcp)
    /\ BuffersBounded(dot.tcp_parser)

\* a call returned with its flow's buffer filled to exactly max_packet_size,
\* after an earlier call had left bytes in it
C5_Witness ==
    /\ call.op = "process_tcp_segment"
    /\ ~call.fresh
    /\ call.stats["dns.tcp.buffer_overflow"] = 0
    /\ tcp.max_packet_size > 0
    /\ Len(tcp.tcp_sessions[call.flow].buffer) = tcp.max_packet_size

\* the call recorded in call' appends a segment that makes its flow's buffer
\* longer than max_packet_size
Overflowing ==
    /\ call'.op = "process_tcp_segment"
    /\ Len(BufferOf(tcp, call'.flow) \o call'.data) > tcp.max_packet_size

\* what such a call does to its own session and returns
OverflowHandled ==
    /\ call'.flow \in DOMAIN tcp'.tcp_sessions
    /\ tcp'.tcp_sessions[call'.flow].buffer = <<>>
    /\ call'.stats = [StatsNew EXCEPT !["dns.tcp.buffer_overflow"] = 1]
    /\ call'.results = <<>>

(***************************************************************************)
(* C6 as claimed: a call whose append overflows the buffer empties it,     *)
(* increments dns.tcp.buffer_overflow once, returns no messages, keeps the *)
(* session, and leaves every other session in the table, unchanged.        *)
(***************************************************************************)
C6_OverflowTouchesNoOtherSession ==
    [][Overflowing =>
        /\ OverflowHandled
        /\ \A k \in DOMAIN tcp.tcp_sessions \ {call'.flow} :
              /\ k \in DOMAIN tcp'.tcp_sessions
              /\ tcp'.tcp_sessions[k] = tcp.tcp_sessions[k]]_vars

(***************************************************************************)
(* C6 amended: a call whose append overflows the buffer empties it,        *)
(* increments dns.tcp.buffer_overflow once, returns no messages and keeps  *)
(* the session; every other session still in the table is unchanged, and   *)
(* sessions leave the table only when the segment's flow had no session.   *)
(***************************************************************************)
C6_OverflowClearsOnlyItsBuffer ==
    [][Overflowing =>
        /\ OverflowHandled
        /\ \A k \in DOMAIN tcp'.tcp_sessions \ {call'.flow} :
              /\ k \in DOMAIN tcp.tcp_sessions
              /\ tcp'.tcp_sessions[k] = tcp.tcp_sessions[k]
        /\ ~call'.fresh => DOMAIN tcp'.tcp_sessions = DOMAIN tcp.tcp_sessions]_vars

\* a segment overflowed the buffer of a flow that had a session: the buffer
\* is empty, the counter is 1, no message was returned, and the other
\* session of the table still holds its bytes
C6_Witness ==
    /\ call.op = "process_tcp_segment"
    /\ ~call.fresh
    /\ call.size_before = 2
    /\ call.stats["dns.tcp.buffer_overflow"] = 1
    /\ call.results = <<>>
    /\ Cardinality(DOMAIN tcp.tcp_sessions) = 2
    /\ tcp.tcp_sessions[call.flow].buffer = <<>>
    /\ \E k \in DOMAIN tcp.tcp_sessions \ {call.flow} : tcp.tcp_sessions[k].buffer # <<>>

\* the flow of the call recorded in call' had an Established DoQ session
\* when the call was made, and had not been idle for session_timeout_ms
WasEstablishedQuic ==
    /\ call'.flow \in DOMAIN doq.quic_sessions
    /\ doq.quic_sessions[call'.flow].state = "Established"
    /\ doq.current_time_ms - doq.quic_sessions[call'.flow].last_seen < doq.session_timeout_ms

\* what a call returns that hands the bytes of the call recorded in call' to
\* the decoder and tags the message Doq
DecodedQuic ==
    LET r == parse(doq.max_packet_size, call'.data, StatsNew)
    IN  /\ call'.stats = r.stats
        /\ call'.results = IF r.some THEN <<[r.message EXCEPT !.protocol = "Doq"]>> ELSE <<>>

(***************************************************************************)
(* C15: every message process_quic_data returns is tagged Doq; a packet of *)
(* a flow whose session is Established, and has not been idle for          *)
(* session_timeout_ms, is handed to the decoder, and the session is        *)
(* Established after it.                                                   *)
(***************************************************************************)
C15_EstablishedQuicDecodes ==
    [][call'.op = "process_quic_data" =>
        /\ \A i \in 1..Len(call'.results) : call'.results[i].protocol = "Doq"
        /\ WasEstablishedQuic =>
              /\ DecodedQuic
              /\ call'.flow \in DOMAIN doq'.quic_sessions
              /\ doq'.quic_sessions[call'.flow].state = "Established"]_vars

\* a call for flow removed sessions of the table only where the flow had no
\* session and the table held max_sessions sessions or more
EvictsForNewFlowOnly(before, after, flow, max_sessions) ==
    (DOMAIN before \ DOMAIN after) # {} =>
        /\ flow \notin DOMAIN before
        /\ Cardinality(DOMAIN before) >= max_sessions

(***************************************************************************)
(* C16: in each reassembler (TCP, DoT and the TCP reassembler inside it,   *)
(* DoQ) a data call removes sessions only when its flow has no session and *)
(* the table is full; a call for a flow that has a session removes none.   *)
(***************************************************************************)
C16_EvictionOnlyForNewFlow ==
    [][call'.op \in {"process_tcp_segment", "process_tls_data", "process_quic_data"} =>
        /\ EvictsForNewFlowOnly(tcp.tcp_sessions, tcp'.tcp_sessions,
                                call'.flow, tcp.max_sessions)
        /\ EvictsForNewFlowOnly(dot.tls_sessions, dot'.tls_sessions,
                                call'.flow, dot.max_sessions)
        /\ EvictsForNewFlowOnly(dot.tcp_parser.tcp_sessions, dot'.tcp_parser.tcp_sessions,
                                call'.flow, dot.tcp_parser.max_sessions)
        /\ EvictsForNewFlowOnly(doq.quic_sessions, doq'.quic_sessions,
                                call'.flow, doq.max_sessions)]_vars

\* no session of the table has last_seen older than now - session_timeout_ms
NoneOlderThan(table, now, session_timeout_ms) ==
    \A k \in DOMAIN table : ~(table[k].last_seen < now - session_timeout_ms)

\* the clock of parser p is now and none of the sessions of table is expired
ClockSetAndClean(p, table, now) ==
    /\ p.current_time_ms = now
    /\ NoneOlderThan(table, now, p.session_timeout_ms)

(***************************************************************************)
(* C17: right after update_time(now) the clock of the reassembler is now   *)
(* and its table holds no session whose last_seen is older than            *)
(* now - session_timeout_ms; for DoT this holds of the TCP reassembler     *)
(* inside it as well.                                                      *)
(***************************************************************************)
C17_UpdateTimeSetsClockAndCleans ==
    call.op = "update_time" =>
        /\ driven = "tcp" => ClockSetAndClean(tcp, tcp.tcp_sessions, call.time_ms)
        /\ driven = "dot" =>
              /\ ClockSetAndClean(dot, dot.tls_sessions, call.time_ms)
              /\ ClockSetAndClean(dot.tcp_parser, dot.tcp_parser.tcp_sessions, call.time_ms)
        /\ driven = "doq" => ClockSetAndClean(doq, doq.quic_sessions, call.time_ms)

\* update_time was called on a DoT reassembler that held a session idle for
\* longer than the timeout
C17_Witness ==
    /\ driven = "dot"
    /\ call.op = "update_time"
    /\ call.expired # {}

(***************************************************************************)
(* The DoT reassembler fed packets that carry a framed message in two      *)
(* pieces, with a max_packet_size that has room for one message.           *)
(***************************************************************************)
\* the first byte of a framed query, and the rest of it
TlsPackets == {SubSeq(Framed(MinimalQuery), 1, 1), Tail(Framed(MinimalQuery))}

InitTls ==
    /\ driven = "dot"
    /\ \E m \in 0..MaxSessions : dot = DotNew(StreamPacketSize, m, SessionTimeoutMs)
    /\ tcp = TcpNew(0, 0, 0)
    /\ doq = DoqNew(0, 0, 0)
    /\ call = NoCall
    /\ offered = <<>>
    /\ feed = NoFeed
    /\ driver = NoDriver
    /\ output = NoOutput
    /\ capture = NoCapture
    /\ ex = ExtractIdle
    /\ nd = NameIdle
    /\ ParseIdle

NextTls ==
    \/ \E flow \in DotFlows, data \in TlsPackets : TlsData(flow, data)
    \/ \E time_ms \in 0..MaxClock : DotTime(time_ms)

SpecTls == InitTls /\ [][NextTls]_vars

\* the session of the flow of the call recorded in call' was Established
\* when the call was made
WasEstablished ==
    /\ call'.flow \in DOMAIN dot.tls_sessions
    /\ dot.tls_sessions[call'.flow].state = "Established"

(***************************************************************************)
(* C13: every message process_tls_data returns is tagged Dot; a call       *)
(* returns messages only when the flow's session was Established, and they *)
(* are what the inner TCP reassembler returns for the packet's bytes on    *)
(* the same flow; a call on a session in another state hands no bytes to   *)
(* the inner reassembler.                                                  *)
(***************************************************************************)
C13_DotMessagesFromEstablished ==
    [][call'.op = "process_tls_data" =>
        /\ \A i \in 1..Len(call'.results) : call'.results[i].protocol = "Dot"
        /\ call'.results # <<>> => WasEstablished
        /\ WasEstablished =>
              \E o \in process_tcp_segment(dot.tcp_parser, call'.flow, call'.data, StatsNew) :
                  /\ dot'.tcp_parser = o.parser
                  /\ call'.results = [i \in 1..Len(o.results) |->
                                        [o.results[i] EXCEPT !.protocol = "Dot"]]
        /\ ~WasEstablished =>
              /\ call'.results = <<>>
              /\ dot'.tcp_parser = dot.tcp_parser]_vars

\* the second piece of a framed query arrived on an Established session and
\* the call returned the query, tagged Dot
C13_Witness ==
    /\ call.op = "process_tls_data"
    /\ call.data = Tail(Framed(MinimalQuery))
    /\ Len(call.results) = 1
    /\ call.results[1].protocol = "Dot"
    /\ call.results[1].questions[1].name = <<97>>
    /\ dot.tls_sessions[call.flow].state = "Established"

(***************************************************************************)
(* One call of process_http_data on a DoH parser built like the driver's   *)
(* decoder, with the wire format of a message or a slice too short for one.*)
(***************************************************************************)
HttpBodies ==
    {Encode(m, compress) : m \in WireMessages, compress \in BOOLEAN}
        \cup {<<>>, [i \in 1..11 |-> 0]}

\* the session_id handed to process_http_data
HttpSessions == {1, 2}

InitDoh ==
    /\ driven = "doh"
    /\ tcp = TcpNew(0, 0, 0)
    /\ dot = DotNew(0, 0, 0)
    /\ doq = DoqNew(0, 0, 0)
    /\ call = NoCall
    /\ offered = <<>>
    /\ feed = NoFeed
    /\ driver = NoDriver
    /\ output = NoOutput
    /\ capture = NoCapture
    /\ ex = ExtractIdle
    /\ nd = NameIdle
    /\ ParseIdle

HttpData(session_id, data) ==
    /\ driven = "doh"
    /\ call = NoCall
    /\ call' = Called("process_http_data", session_id, data,
                      DohNew(udp_max_packet_size).http_sessions,
                      process_http_data(DohNew(udp_max_packet_size), session_id, data, StatsNew))
    /\ UNCHANGED <<nd, pkt, sent, ret, driven, tcp, dot, doq, offered, feed, driver, output, capture, ex>>

NextDoh == \E session_id \in HttpSessions, data \in HttpBodies : HttpData(session_id, data)

SpecDoh == InitDoh /\ [][NextDoh]_vars

(***************************************************************************)
(* C14: every message process_http_data returns is tagged Doh.             *)
(***************************************************************************)
C14_DohMessagesTaggedDoh ==
    call.op = "process_http_data" =>
        \A i \in 1..Len(call.results) : call.results[i].protocol = "Doh"

(***************************************************************************)
(* Distinct flows offered back to back to a newly built reassembler, one   *)
(* segment each.  The clock is the initial 0, or what one update_time call *)
(* made before the first flow set it to.                                   *)
(***************************************************************************)
\* one flow more than the largest table holds
OfferFlows == {<<1, 9, 1000 + i, 53>> : i \in 0..MaxSessions}

\* the flows of a sequence of flows
Range(flows) == {flows[i] : i \in 1..Len(flows)}

OfferClock(time_ms) ==
    /\ offered = <<>>
    /\ call = NoCall
    /\ tcp' = IF driven = "tcp" THEN TcpUpdateTime(tcp, time_ms) ELSE tcp
    /\ dot' = IF driven = "dot" THEN DotUpdateTime(dot, time_ms) ELSE dot
    /\ doq' = IF driven = "doq" THEN DoqUpdateTime(doq, time_ms) ELSE doq
    /\ call' = [op |-> "update_time", time_ms |-> time_ms]
    /\ UNCHANGED <<nd, pkt, sent, ret, driven, offered, feed, driver, output, capture, ex>>

OfferTcp(flow, data) ==
    /\ driven = "tcp"
    /\ flow \notin Range(offered)
    /\ \E o \in process_tcp_segment(tcp, flow, data, StatsNew) :
          /\ tcp' = o.parser
          /\ call' = Called("process_tcp_segment", flow, data, tcp.tcp_sessions, o)
    /\ offered' = Append(offered, flow)
    /\ UNCHANGED <<nd, pkt, sent, ret, driven, dot, doq, feed, driver, output, capture, ex>>

OfferTls(flow, data) ==
    /\ driven = "dot"
    /\ flow \notin Range(offered)
    /\ \E o \in process_tls_data(dot, flow, data, StatsNew) :
          /\ dot' = o.parser
          /\ call' = Called("process_tls_data", flow, data, dot.tls_sessions, o)
    /\ offered' = Append(offered, flow)
    /\ UNCHANGED <<nd, pkt, sent, ret, driven, tcp, doq, feed, driver, output, capture, ex>>

OfferQuic(flow, data) ==
    /\ driven = "doq"
    /\ flow \notin Range(offered)
    /\ \E o \in process_quic_data(doq, flow, data, StatsNew) :
          /\ doq' = o.parser
          /\ call' = Called("process_quic_data", flow, data, doq.quic_sessions, o)
    /\ offered' = Append(offered, flow)
    /\ UNCHANGED <<nd, pkt, sent, ret, driven, tcp, dot, feed, driver, output, capture, ex>>

NextOffer ==
    \/ \E time_ms \in 0..MaxClock : OfferClock(time_ms)
    \/ \E flow \in OfferFlows, data \in Segments : OfferTcp(flow, data)
    \/ \E flow \in OfferFlows, data \in Segments : OfferTls(flow, data)
    \/ \E flow \in OfferFlows, data \in Datagrams : OfferQuic(flow, data)

SpecOffer == Init /\ [][NextOffer]_vars

\* the session table of the driven reassembler, and its max_sessions
DrivenSessions ==
    CASE driven = "tcp" -> tcp.tcp_sessions
      [] driven = "dot" -> dot.tls_sessions
      [] driven = "doq" -> doq.quic_sessions

DrivenMaxSessions ==
    CASE driven = "tcp" -> tcp.max_sessions
      [] driven = "dot" -> dot.max_sessions
      [] driven = "doq" -> doq.max_sessions

(***************************************************************************)
(* C3: once max_sessions + 1 distinct flows have been offered to a         *)
(* reassembler (one built to hold at least one session), one segment each, *)
(* at whatever clock value, its table holds exactly max_sessions sessions. *)
(***************************************************************************)
C3_TableFullAfterOneFlowMore ==
    (DrivenMaxSessions >= 1 /\ Len(offered) = DrivenMaxSessions + 1)
        => Cardinality(DOMAIN DrivenSessions) = DrivenMaxSessions

(***************************************************************************)
(* A stream of framed messages cut into consecutive segments, each handed  *)
(* to process_tcp_segment on StreamFlow; no other call is made.            *)
(***************************************************************************)
InitStream ==
    /\ driven = "tcp"
    /\ driver = NoDriver
    /\ output = NoOutput
    /\ capture = NoCapture
    /\ ex = ExtractIdle
    /\ tcp = TcpNew(StreamPacketSize, 1, SessionTimeoutMs)
    /\ dot = DotNew(0, 0, 0)
    /\ doq = DoqNew(0, 0, 0)
    /\ \E ms \in SeqsUpTo(StreamMessages, MaxStream) : feed = StartFeed(ms)
    /\ offered = <<>>
    /\ call = NoCall
    /\ nd = NameIdle
    /\ ParseIdle

\* whether a length prefix of the framed messages ms starts at offset n
RECURSIVE PrefixStartsAt(_, _)
PrefixStartsAt(ms, n) ==
    IF ms = <<>> \/ n < 0 THEN FALSE
    ELSE n = 0 \/ PrefixStartsAt(Tail(ms), n - Len(Framed(Head(ms))))

\* the next n bytes of the stream are handed over as one segment
FeedSegment(n) ==
    LET stream == FramedAll(feed.messages)
        data == Slice(stream, feed.fed, feed.fed + n)
    IN  /\ feed.fed + n <= Len(stream)
        /\ \E o \in process_tcp_segment(tcp, StreamFlow, data, StatsNew) :
              /\ tcp' = o.parser
              /\ feed' = [feed EXCEPT
                            !.fed = @ + n,
                            !.emitted = @ \o o.results,
                            !.last = o.results,
                            !.overflowed =
                                @ \/ Len(BufferOf(tcp, StreamFlow) \o data) > tcp.max_packet_size,
                            !.cut_in_prefix = @ \/ PrefixStartsAt(feed.messages, feed.fed + n - 1)]
        /\ UNCHANGED <<nd, pkt, sent, ret, driven, dot, doq, offered, driver, output, capture, ex, call>>

NextStream == \E n \in 0..Len(FramedAll(feed.messages)) : FeedSegment(n)

SpecStream == InitStream /\ [][NextStream]_vars

\* what the wire decoder makes of message m, tagged Tcp
DecodedTcp(m) == [parse(StreamPacketSize, m, StatsNew).message EXCEPT !.protocol = "Tcp"]

\* how many of the framed messages ms lie wholly within the first n bytes
RECURSIVE WholeWithin(_, _)
WholeWithin(ms, n) ==
    IF ms = <<>> \/ Len(Framed(Head(ms))) > n THEN 0
    ELSE 1 + WholeWithin(Tail(ms), n - Len(Framed(Head(ms))))

\* the messages that have been fed whole, decoded
ExpectedEmitted ==
    [i \in 1..WholeWithin(feed.messages, feed.fed) |-> DecodedTcp(feed.messages[i])]

NameBytes == {0, 1, 2, 65, 97, 192}

PointerChain(k) ==
    [i \in 1..(2 * k + 1) |-> IF i = 2 * k + 1 THEN 0
                              ELSE IF i % 2 = 1 THEN 192 ELSE i]

NameInputs ==
    SeqsUpTo(NameBytes, MaxNameLen)
        \cup {PointerChain(k) : k \in (max_jumps - 1)..(max_jumps + 1)}

InitName ==
    /\ nd \in {NameStart(d, o) : d \in NameInputs, o \in 0..1}
    /\ ParseIdle
    /\ ReassemblersIdle

NameLoop ==
    /\ nd.pc = "loop"
    /\ nd' = NameStep(nd)
    /\ UNCHANGED <<pkt, sent, ret, driven, tcp, dot, doq, offered, feed, driver, output, capture, ex, call>>

NextName == NameLoop

SpecName == InitName /\ [][NextName]_vars

\* parse_domain_name is a sequential loop: a started call keeps running
SpecNameFair == SpecName /\ WF_vars(NameLoop)

(***************************************************************************)
(* C8: name decoding terminates on every input, and no name is returned    *)
(* after more than max_jumps (10) compression pointers were followed: a    *)
(* longer chain, a pointer to itself included, ends in failure.            *)
(***************************************************************************)
C8_NameDecodingBounded ==
    /\ <>(nd.pc # "loop")
    /\ [](nd.pc = "some" => nd.jump_count <= max_jumps)
    /\ [](nd.jump_count > max_jumps => nd.pc = "none")

\* a pointer that targets itself has been followed 11 times and decoding failed
C8_Witness ==
    /\ nd.pc = "none"
    /\ nd.jump_count = max_jumps + 1
    /\ nd.data = <<192, 0>>
    /\ nd.pos = 0

(***************************************************************************)
(* Protocol detection (protocols/detect.rs).  A detector holds four port   *)
(* lists; detect looks at the two ports of a packet.                       *)
(***************************************************************************)
\* ProtocolDetector::new
DetectorNew ==
    [dns_ports |-> <<53>>,
     dot_ports |-> <<853>>,
     doh_ports |-> <<443>>,
     doq_ports |-> <<853, 8853>>]

\* Vec::contains
Contains(ports, port) == \E i \in 1..Len(ports) : ports[i] = port

\* the values of ProtocolDetectResult
DetectDns(protocol) == [kind |-> "Dns", protocol |-> protocol]
DetectUnknown == [kind |-> "Unknown"]
DetectNeedMoreData == [kind |-> "NeedMoreData"]

\* detect that looks at the DoT ports before the DNS ports
detectDotFirst(d, data, src_port, dst_port) ==
    IF Contains(d.dot_ports, src_port) \/ Contains(d.dot_ports, dst_port)
    THEN DetectNeedMoreData
    ELSE DetectDns("Udp")

\* ProtocolDetector::detect
detect(d, data, src_port, dst_port) ==
    IF Contains(d.dns_ports, src_port) \/ Contains(d.dns_ports, dst_port)
    THEN DetectDns("Udp")
    ELSE IF Contains(d.dot_ports, src_port) \/ Contains(d.dot_ports, dst_port)
    THEN DetectNeedMoreData
    ELSE IF Contains(d.doh_ports, src_port) \/ Contains(d.doh_ports, dst_port)
    THEN DetectNeedMoreData
    ELSE IF Contains(d.doq_ports, src_port) \/ Contains(d.doq_ports, dst_port)
    THEN DetectNeedMoreData
    ELSE DetectDns("Udp")

(***************************************************************************)
(* Calls of detect on a detector with the default ports: the ports are the *)
(* four well-known ones, their neighbours and the ends of the u16 range;   *)
(* the data is empty, too short for a message, a message, or a TLS record  *)
(* header.                                                                 *)
(***************************************************************************)
DetectPorts == {0, 52, 53, 80, 443, 853, 8853, 65535}

DetectData == {<<>>, <<1>>, MinimalQuery, <<22, 3, 1>>}

InitDetect ==
    /\ driven = "detect"
    /\ tcp = TcpNew(0, 0, 0)
    /\ dot = DotNew(0, 0, 0)
    /\ doq = DoqNew(0, 0, 0)
    /\ call = NoCall
    /\ offered = <<>>
    /\ feed = NoFeed
    /\ driver = NoDriver
    /\ output = NoOutput
    /\ capture = NoCapture
    /\ ex = ExtractIdle
    /\ nd = NameIdle
    /\ ParseIdle

Detect(data, src_port, dst_port) ==
    /\ driven = "detect"
    /\ call' = [op |-> "detect", data |-> data, src_port |-> src_port, dst_port |-> dst_port,
                result |-> detect(DetectorNew, data, src_port, dst_port)]
    /\ UNCHANGED <<nd, pkt, sent, ret, driven, tcp, dot, doq, offered, feed, driver, output, capture, ex>>

NextDetect ==
    \E data \in DetectData, src_port \in DetectPorts, dst_port \in DetectPorts :
        Detect(data, src_port, dst_port)

SpecDetect == InitDetect /\ [][NextDetect]_vars

(***************************************************************************)
(* C18: with the default ports detect returns Dns(Udp) if either port is   *)
(* 53, else NeedMoreData if either port is 853, 443 or 8853, else          *)
(* Dns(Udp); the data plays no part and Unknown is never returned.         *)
(***************************************************************************)
C18_DetectByPorts ==
    call.op = "detect" =>
        LET ports == {call.src_port, call.dst_port}
        IN  /\ call.result =
                 IF 53 \in ports THEN [kind |-> "Dns", protocol |-> "Udp"]
                 ELSE IF ports \cap {853, 443, 8853} # {} THEN [kind |-> "NeedMoreData"]
                 ELSE [kind |-> "Dns", protocol |-> "Udp"]
            /\ call.result # DetectUnknown

\* a packet from port 53 to port 853 was classified: the DNS port wins
C18_Witness ==
    /\ call.op = "detect"
    /\ call.src_port = 53
    /\ call.dst_port = 853
    /\ call.data = <<22, 3, 1>>
    /\ call.result.kind = "Dns"

(***************************************************************************)
(* The driver (core/driver.rs).  start() runs on the thread of its caller  *)
(* and is a sequence of steps: the check of the running flag and the       *)
(* construction of the capture, the spawn of the stats thread, the spawn   *)
(* of each worker, capture.initialize(), capture.start_capture(), and the  *)
(* join of the workers.  The threads it spawns run between these steps.    *)
(* start and stop take &mut self, so stop is called, and start is called   *)
(* again, only when no call of start is under way.                         *)
(*                                                                         *)
(* Every call of start that passes the check creates a capture; a thread   *)
(* holds the capture, and carries the number (gen), of the call that       *)
(* spawned it.  Threads are anonymous: the threads of the driver are a bag *)
(* of thread states.                                                       *)
(***************************************************************************)
\* most worker threads the configuration asks for
MaxWorkers == 1
\* most calls of start on one driver
MaxStarts == 2
\* most frames one capture delivers
MaxFrames == 1

\* what a capture delivers: a slice too short for a message, and a query
Frames == {<<1>>, MinimalQuery}

\* PcapCapture::new: capture is None, is_capturing false; pending is what has
\* arrived at the interface and was not pulled yet, arrived counts it
CaptureNew ==
    [initialized |-> FALSE, is_capturing |-> FALSE, pending |-> <<>>, arrived |-> 0]

\* a frame arrives at the interface of a capture that is capturing
arrive(c, frame) == [c EXCEPT !.pending = Append(@, frame), !.arrived = @ + 1]

\* PacketCapture::initialize: opens the device, or fails and leaves the
\* capture as it was
initialize(c) ==
    {[ok |-> TRUE, capture |-> [c EXCEPT !.initialized = TRUE]],
     [ok |-> FALSE, capture |-> c]}

\* PacketCapture::start_capture
start_capture(c) ==
    IF ~c.initialized
    THEN [ok |-> FALSE, capture |-> c]
    ELSE [ok |-> TRUE, capture |-> [c EXCEPT !.is_capturing = TRUE]]

\* the smaller of two numbers
Min(a, b) == IF a < b THEN a ELSE b

\* PacketCapture::receive_packets: nothing unless capturing; otherwise the
\* frames that have arrived, at most max_packets of them
receive_packets(c, max_packets) ==
    IF ~c.is_capturing \/ ~c.initialized
    THEN {[packets |-> <<>>, capture |-> c]}
    ELSE {[packets |-> SubSeq(c.pending, 1, n),
           capture |-> [c EXCEPT !.pending = SubSeq(@, n + 1, Len(@))]] :
            n \in 0..Min(max_packets, Len(c.pending))}

\* Driver::new
DriverNew(worker_threads) ==
    [worker_threads |-> worker_threads,
     stats |-> StatsNew,
     running |-> FALSE,
     pc |-> "idle",          \* where the caller of start is inside start
     spawned |-> 0,          \* worker_handles.len()
     captures |-> <<>>,      \* the capture of each call that created one
     threads |-> EmptyBag,
     starts |-> 0,           \* calls of start made
     ret |-> "none"]         \* what the latest call of start returned; "()"
                             \* when stop was called after it

\* a thread as it is spawned by the call of start that created capture gen
Thread(kind, gen) == [kind |-> kind, gen |-> gen, pc |-> "top", packets |-> <<>>]

\* one thread of the bag moves from state t to state u; a thread that has
\* ended leaves the bag
Moved(threads, t, u) ==
    IF u.pc = "exited"
    THEN threads (-) SetToBag({t})
    ELSE (threads (-) SetToBag({t})) (+) SetToBag({u})

\* lines 46-66 without the check of the flag
start_entry_unchecked(d) ==
    [d EXCEPT !.starts = @ + 1, !.running = TRUE, !.ret = "none",
              !.captures = Append(@, CaptureNew),
              !.spawned = 0, !.pc = "spawn_stats"]

\* lines 46-66: the check of the running flag, and the construction of the
\* detector, the decoder, the output manager and the capture
start_entry(d) ==
    IF d.running
    THEN [d EXCEPT !.starts = @ + 1, !.ret = "Err(Driver already running)"]
    ELSE [d EXCEPT !.starts = @ + 1, !.running = TRUE, !.ret = "none",
                   !.captures = Append(@, CaptureNew),
                   !.spawned = 0, !.pc = "spawn_stats"]

\* lines 69-86: the stats thread is spawned
spawn_stats(d) ==
    [d EXCEPT !.threads = @ (+) SetToBag({Thread("stats", Len(d.captures))}),
              !.pc = "spawn_workers"]

\* lines 94-160, one iteration: a worker is spawned and its handle kept
spawn_worker(d) ==
    [d EXCEPT !.threads = @ (+) SetToBag({Thread("worker", Len(d.captures))}),
              !.spawned = @ + 1]

\* lines 163-172 with the error returned and the flag left as it is
start_initialize_keeps_running(d, r) ==
    IF r.ok
    THEN [d EXCEPT !.captures[Len(d.captures)] = r.capture, !.pc = "start_capture"]
    ELSE [d EXCEPT !.captures[Len(d.captures)] = r.capture,
                   !.pc = "idle", !.ret = "Err(Failed to initialize capture)"]

\* lines 163-172: capture.initialize(), and the return of its error
start_initialize(d, r) ==
    IF r.ok
    THEN [d EXCEPT !.captures[Len(d.captures)] = r.capture, !.pc = "start_capture"]
    ELSE [d EXCEPT !.captures[Len(d.captures)] = r.capture, !.running = FALSE,
                   !.pc = "idle", !.ret = "Err(Failed to initialize capture)"]

\* lines 173-182: capture.start_capture(), and the return of its error
start_start_capture(d, r) ==
    IF r.ok
    THEN [d EXCEPT !.captures[Len(d.captures)] = r.capture, !.pc = "join"]
    ELSE [d EXCEPT !.captures[Len(d.captures)] = r.capture, !.running = FALSE,
                   !.pc = "idle", !.ret = "Err(Failed to start capture)"]

\* the workers whose handles the present call of start holds have all ended
WorkersEnded(d) ==
    \A t \in BagToSet(d.threads) : ~(t.kind = "worker" /\ t.gen = Len(d.captures))

\* lines 185-189: the joins have returned
start_joined(d) == [d EXCEPT !.pc = "idle", !.ret = "Ok"]

\* Driver::stop
stop(d) == [d EXCEPT !.running = FALSE, !.ret = "()"]

\* lines 76 and 103: the loop condition of a thread
loop_top(d, t) ==
    [d EXCEPT !.threads =
        Moved(@, t, [t EXCEPT !.pc = IF d.running THEN "body" ELSE "exited"])]

\* lines 105-108: the worker pulls up to 10 frames from its capture
worker_receive(d, t, r) ==
    [d EXCEPT !.captures[t.gen] = r.capture,
              !.threads = Moved(@, t, [t EXCEPT !.pc = "process", !.packets = r.packets])]

\* lines 112-139 for one packet: it is classified with both ports 53 and,
\* being Dns, decoded; a message is counted and handed to the output manager
ProcessPacket(stats, packet_data) ==
    LET result == detect(DetectorNew, packet_data, 53, 53)
        r == parse(udp_max_packet_size, packet_data, stats)
    IN  IF result.kind = "Dns"
        THEN IF r.some THEN Increment(r.stats, "packet.processed") ELSE r.stats
        ELSE IF result.kind = "NeedMoreData"
        THEN Increment(stats, "packet.need_more_data")
        ELSE Increment(stats, "packet.unknown")

\* lines 110-152: the loop over the packets pulled
RECURSIVE ProcessPackets(_, _)
ProcessPackets(stats, packets) ==
    IF packets = <<>>
    THEN stats
    ELSE ProcessPackets(ProcessPacket(stats, Head(packets)), Tail(packets))

\* lines 110-155: the worker processes what it pulled and sleeps
worker_process(d, t) ==
    [d EXCEPT !.stats = ProcessPackets(@, t.packets),
              !.threads = Moved(@, t, [t EXCEPT !.pc = "top", !.packets = <<>>])]

\* lines 77-84: the stats thread sleeps a second and, when stats_interval
\* has gone by (due), prints and resets the counters
stats_tick(d, t, due) ==
    [d EXCEPT !.stats = IF due THEN StatsNew ELSE @,
              !.threads = Moved(@, t, [t EXCEPT !.pc = "top"])]

(***************************************************************************)
(* Runs of one driver: its owner calls start and stop, the capture         *)
(* initializes or fails to, the threads run.                               *)
(***************************************************************************)
InitDriver ==
    /\ driven = "driver"
    /\ \E worker_threads \in 0..MaxWorkers : driver = DriverNew(worker_threads)
    /\ output = NoOutput
    /\ capture = NoCapture
    /\ ex = ExtractIdle
    /\ tcp = TcpNew(0, 0, 0)
    /\ dot = DotNew(0, 0, 0)
    /\ doq = DoqNew(0, 0, 0)
    /\ call = NoCall
    /\ offered = <<>>
    /\ feed = NoFeed
    /\ nd = NameIdle
    /\ ParseIdle

\* a step of a run of the driver changes the driver only
DriverOnly ==
    /\ driven = "driver"
    /\ UNCHANGED <<nd, pkt, sent, ret, driven, tcp, dot, doq, offered, feed, output, capture, ex, call>>

Start ==
    /\ driver.pc = "idle"
    /\ driver.starts < MaxStarts
    /\ driver' = start_entry(driver)
    /\ DriverOnly

SpawnStats ==
    /\ driver.pc = "spawn_stats"
    /\ driver' = spawn_stats(driver)
    /\ DriverOnly

SpawnWorker ==
    /\ driver.pc = "spawn_workers"
    /\ driver.spawned < driver.worker_threads
    /\ driver' = spawn_worker(driver)
    /\ DriverOnly

Initialize ==
    /\ driver.pc = "spawn_workers"
    /\ driver.spawned = driver.worker_threads
    /\ \E r \in initialize(driver.captures[Len(driver.captures)]) :
          driver' = start_initialize(driver, r)
    /\ DriverOnly

StartCapture ==
    /\ driver.pc = "start_capture"
    /\ driver' = start_start_capture(driver, start_capture(driver.captures[Len(driver.captures)]))
    /\ DriverOnly

Join ==
    /\ driver.pc = "join"
    /\ WorkersEnded(driver)
    /\ driver' = start_joined(driver)
    /\ DriverOnly

Stop ==
    /\ driver.pc = "idle"
    /\ driver.starts > 0
    /\ driver' = stop(driver)
    /\ DriverOnly

LoopTop(t) ==
    /\ BagIn(t, driver.threads)
    /\ t.pc = "top"
    /\ driver' = loop_top(driver, t)
    /\ DriverOnly

WorkerReceive(t) ==
    /\ BagIn(t, driver.threads)
    /\ t.kind = "worker"
    /\ t.pc = "body"
    /\ \E r \in receive_packets(driver.captures[t.gen], 10) :
          driver' = worker_receive(driver, t, r)
    /\ DriverOnly

WorkerProcess(t) ==
    /\ BagIn(t, driver.threads)
    /\ t.kind = "worker"
    /\ t.pc = "process"
    /\ driver' = worker_process(driver, t)
    /\ DriverOnly

\* the interface of capture gen receives a frame
Arrive(gen, frame) ==
    /\ driver.captures[gen].is_capturing
    /\ driver.captures[gen].arrived < MaxFrames
    /\ driver' = [driver EXCEPT !.captures[gen] = arrive(@, frame)]
    /\ DriverOnly

StatsTick(t, due) ==
    /\ BagIn(t, driver.threads)
    /\ t.kind = "stats"
    /\ t.pc = "body"
    /\ driver' = stats_tick(driver, t, due)
    /\ DriverOnly

NextDriver ==
    \/ Start
    \/ SpawnStats
    \/ SpawnWorker
    \/ Initialize
    \/ StartCapture
    \/ Join
    \/ Stop
    \/ \E t \in BagToSet(driver.threads) : LoopTop(t)
    \/ \E t \in BagToSet(driver.threads) : WorkerReceive(t)
    \/ \E t \in BagToSet(driver.threads) : WorkerProcess(t)
    \/ \E t \in BagToSet(driver.threads), due \in BOOLEAN : StatsTick(t, due)
    \/ \E gen \in 1..Len(driver.captures), frame \in Frames : Arrive(gen, frame)

SpecDriver == InitDriver /\ [][NextDriver]_vars

\* this step is a call of start
StartCalled == driver'.starts = driver.starts + 1

(***************************************************************************)
(* C19: a call of start made while the running flag is true returns the    *)
(* error "Driver already running" and changes nothing: the flag stays      *)
(* true, no thread is spawned, no capture is created, initialized or       *)
(* started.                                                                *)
(***************************************************************************)
C19_StartWhileRunningRefused ==
    [][(StartCalled /\ driver.running) =>
        /\ driver'.ret = "Err(Driver already running)"
        /\ driver'.running
        /\ driver'.pc = "idle"
        /\ driver'.threads = driver.threads
        /\ driver'.captures = driver.captures
        /\ driver'.stats = driver.stats]_vars

\* start was refused while the flag was true and the capture of the earlier
\* call is capturing
C19_Witness ==
    /\ driven = "driver"
    /\ driver.ret = "Err(Driver already running)"
    /\ driver.running
    /\ Len(driver.captures) = 1
    /\ driver.captures[1].is_capturing

\* this step spawns the stats thread
StatsSpawned == driver.pc = "spawn_stats" /\ driver'.pc = "spawn_workers"

\* this step spawns a worker
WorkerSpawned == driver'.spawned = driver.spawned + 1

\* in this step a worker whose capture is c calls receive_packets
Receives(c) ==
    \E t \in BagToSet(driver.threads) :
        /\ t.kind = "worker"
        /\ t.pc = "body"
        /\ driver.captures[t.gen] = c
        /\ CopiesIn(t, driver'.threads) < CopiesIn(t, driver.threads)

\* capture c has been initialized and started
Capturing(c) == c.initialized /\ c.is_capturing

(***************************************************************************)
(* C20: in a call of start the capture is initialized and started before   *)
(* the stats thread is spawned, the stats thread is spawned before the     *)
(* workers, and the workers are joined last; no worker calls               *)
(* receive_packets on a capture that has not been initialized and started. *)
(***************************************************************************)
C20_CaptureStartedBeforeThreads ==
    [][/\ StatsSpawned => Capturing(driver.captures[Len(driver.captures)])
       /\ WorkerSpawned =>
             /\ Capturing(driver.captures[Len(driver.captures)])
             /\ \E t \in BagToSet(driver.threads) :
                   t.kind = "stats" /\ t.gen = Len(driver.captures)
       /\ (driver.pc = "join" /\ driver'.pc = "idle") =>
             driver.spawned = driver.worker_threads
       /\ \A gen \in 1..Len(driver.captures) :
             Receives(driver.captures[gen]) => Capturing(driver.captures[gen])]_vars

(***************************************************************************)
(* Fair runs of the driver.  The threads are operating system threads:     *)
(* one that can take a step eventually takes it, and so does the caller of *)
(* start once inside start.  Nothing obliges the owner of the driver to    *)
(* call start or stop, nor a frame to arrive.                              *)
(***************************************************************************)
\* the states a thread can be in
ThreadStates ==
    [kind : {"stats", "worker"}, gen : 1..MaxStarts,
     pc : {"top", "body", "process"}, packets : SeqsUpTo(Frames, MaxFrames)]

FairDriver ==
    /\ WF_vars(SpawnStats)
    /\ WF_vars(SpawnWorker)
    /\ WF_vars(Initialize)
    /\ WF_vars(StartCapture)
    /\ WF_vars(Join)
    /\ \A t \in ThreadStates :
          /\ WF_vars(LoopTop(t))
          /\ WF_vars(WorkerReceive(t))
          /\ WF_vars(WorkerProcess(t))
          /\ WF_vars(\E due \in BOOLEAN : StatsTick(t, due))

SpecDriverFair == SpecDriver /\ FairDriver

\* stop was the latest call on the driver
Stopped == driver.pc = "idle" /\ driver.ret = "()"

\* every thread the driver spawned has ended and no call of start is under way
AllEnded == driver.threads = EmptyBag /\ driver.pc = "idle"

(***************************************************************************)
(* C21: once stop has been called every worker and the stats thread        *)
(* eventually end and no call of start is left joining; a call of stop     *)
(* made while the flag is false changes nothing.                           *)
(***************************************************************************)
C21_StopEndsThreads ==
    /\ Stopped ~> AllEnded
    /\ [](driver.pc = "idle" => stop(stop(driver)) = stop(driver))

\* the errors start returns when the capture fails
CaptureErrors == {"Err(Failed to initialize capture)", "Err(Failed to start capture)"}

\* driver d is as start leaves it when the capture has failed: the error is
\* returned, the flag is false and a call of start would not be refused
FailedStart(d) ==
    /\ d.pc = "idle"
    /\ d.ret \in CaptureErrors
    /\ ~d.running
    /\ start_entry(d).ret # "Err(Driver already running)"

\* this step is a return of start from capture.initialize() or
\* capture.start_capture()
CaptureFailed ==
    driver.pc \in {"spawn_workers", "start_capture"} /\ driver'.pc = "idle"

(***************************************************************************)
(* C22: when capture.initialize() or capture.start_capture() fails, start  *)
(* returns a Capture error at once, without waiting for any thread: the    *)
(* threads are as they were, the running flag is false, and a later call   *)
(* of start is not refused.  The capture backends of the repository never  *)
(* fail in start_capture after initialize succeeded, so the handling of    *)
(* that failure is stated of lines 173-182 given a failing result.         *)
(***************************************************************************)
C22_CaptureFailureClearsRunning ==
    /\ [][CaptureFailed =>
            /\ FailedStart(driver')
            /\ driver'.threads = driver.threads]_vars
    /\ [](driver.pc = "start_capture" =>
            LET c == driver.captures[Len(driver.captures)]
                d == start_start_capture(driver, [ok |-> FALSE, capture |-> c])
            IN  FailedStart(d) /\ d.threads = driver.threads)

\* start has returned the error of initialize while the worker it spawned is
\* alive
C22_Witness ==
    /\ driven = "driver"
    /\ driver.ret = "Err(Failed to initialize capture)"
    /\ ~driver.running
    /\ \E t \in BagToSet(driver.threads) : t.kind = "worker" /\ t.gen = Len(driver.captures)

(***************************************************************************)
(* The worker pool at the grain of the capture mutex.  One call of start   *)
(* spawns PoolWorkers workers; a worker locks the capture (line 106),      *)
(* calls receive_packets while it holds the lock (line 107) and releases   *)
(* it at the end of the block (line 108); start locks the same mutex       *)
(* around initialize and start_capture (lines 164, 174).  A thread at      *)
(* "receiving" holds the lock of its capture.  The frames that arrive are  *)
(* queries told apart by their transaction id.  A start that joins live    *)
(* workers does not return, so neither the join nor a second call is part  *)
(* of these runs.                                                          *)
(***************************************************************************)
\* workers of the pool
PoolWorkers == MaxWorkers + 1

\* frames that arrive at the capture of the pool
PoolFrames == MaxFrames + 1

\* the k-th frame to arrive: a query with transaction id k
PoolFrame(k) == [MinimalQuery EXCEPT ![2] = k]

\* the threads that hold the mutex of capture gen
Receiving(d, gen) == {t \in BagToSet(d.threads) : t.pc = "receiving" /\ t.gen = gen}

\* a mutex that is handed to whoever asks
capture_lock_ignored(d, gen) == TRUE

\* Mutex::lock returns when no thread holds the mutex
capture_lock_free(d, gen) == Receiving(d, gen) = {}

\* line 106: the worker has the lock of the capture
worker_lock_capture(d, t) ==
    [d EXCEPT !.threads = Moved(@, t, [t EXCEPT !.pc = "receiving"])]

InitPool ==
    /\ driven = "pool"
    /\ driver = DriverNew(PoolWorkers)
    /\ output = NoOutput
    /\ capture = NoCapture
    /\ ex = ExtractIdle
    /\ tcp = TcpNew(0, 0, 0)
    /\ dot = DotNew(0, 0, 0)
    /\ doq = DoqNew(0, 0, 0)
    /\ call = NoCall
    /\ offered = <<>>
    /\ feed = NoFeed
    /\ nd = NameIdle
    /\ ParseIdle

\* a step of a run of the pool changes the driver only
PoolOnly ==
    /\ driven = "pool"
    /\ UNCHANGED <<nd, pkt, sent, ret, driven, tcp, dot, doq, offered, feed, output, capture, ex, call>>

PoolStart ==
    /\ driver.pc = "idle"
    /\ driver.starts = 0
    /\ driver' = start_entry(driver)
    /\ PoolOnly

PoolSpawnStats ==
    /\ driver.pc = "spawn_stats"
    /\ driver' = spawn_stats(driver)
    /\ PoolOnly

PoolSpawnWorker ==
    /\ driver.pc = "spawn_workers"
    /\ driver.spawned < driver.worker_threads
    /\ driver' = spawn_worker(driver)
    /\ PoolOnly

PoolInitialize ==
    /\ driver.pc = "spawn_workers"
    /\ driver.spawned = driver.worker_threads
    /\ capture_lock_free(driver, Len(driver.captures))
    /\ \E r \in initialize(driver.captures[Len(driver.captures)]) :
          driver' = start_initialize(driver, r)
    /\ PoolOnly

PoolStartCapture ==
    /\ driver.pc = "start_capture"
    /\ capture_lock_free(driver, Len(driver.captures))
    /\ driver' = start_start_capture(driver, start_capture(driver.captures[Len(driver.captures)]))
    /\ PoolOnly

PoolLoopTop(t) ==
    /\ BagIn(t, driver.threads)
    /\ t.pc = "top"
    /\ driver' = loop_top(driver, t)
    /\ PoolOnly

PoolLockCapture(t) ==
    /\ BagIn(t, driver.threads)
    /\ t.kind = "worker"
    /\ t.pc = "body"
    /\ capture_lock_free(driver, t.gen)
    /\ driver' = worker_lock_capture(driver, t)
    /\ PoolOnly

PoolReceive(t) ==
    /\ BagIn(t, driver.threads)
    /\ t.kind = "worker"
    /\ t.pc = "receiving"
    /\ \E r \in receive_packets(driver.captures[t.gen], 10) :
          driver' = worker_receive(driver, t, r)
    /\ PoolOnly

PoolProcess(t) ==
    /\ BagIn(t, driver.threads)
    /\ t.kind = "worker"
    /\ t.pc = "process"
    /\ driver' = worker_process(driver, t)
    /\ PoolOnly

PoolStatsTick(t, due) ==
    /\ BagIn(t, driver.threads)
    /\ t.kind = "stats"
    /\ t.pc = "body"
    /\ driver' = stats_tick(driver, t, due)
    /\ PoolOnly

PoolArrive(gen) ==
    /\ driver.captures[gen].is_capturing
    /\ driver.captures[gen].arrived < PoolFrames
    /\ driver' = [driver EXCEPT !.captures[gen] =
                     arrive(@, PoolFrame(driver.captures[gen].arrived + 1))]
    /\ PoolOnly

NextPool ==
    \/ PoolStart
    \/ PoolSpawnStats
    \/ PoolSpawnWorker
    \/ PoolInitialize
    \/ PoolStartCapture
    \/ \E t \in BagToSet(driver.threads) : PoolLoopTop(t)
    \/ \E t \in BagToSet(driver.threads) : PoolLockCapture(t)
    \/ \E t \in BagToSet(driver.threads) : PoolReceive(t)
    \/ \E t \in BagToSet(driver.threads) : PoolProcess(t)
    \/ \E t \in BagToSet(driver.threads), due \in BOOLEAN : PoolStatsTick(t, due)
    \/ \E gen \in 1..Len(driver.captures) : PoolArrive(gen)

SpecPool == InitPool /\ [][NextPool]_vars

\* how many times frame f is in the sequence of frames fs
Occurrences(fs, f) == Cardinality({i \in 1..Len(fs) : fs[i] = f})

\* how many times frame f is held in d: waiting in a capture, or in the
\* batch of a worker
Held(d, f) ==
    LET ts == BagToSet(d.threads)
        RECURSIVE InCaptures(_), InThreads(_)
        InCaptures(g) ==
            IF g = 0 THEN 0 ELSE Occurrences(d.captures[g].pending, f) + InCaptures(g - 1)
        InThreads(S) ==
            IF S = {} THEN 0
            ELSE LET t == CHOOSE x \in S : TRUE
                 IN  CopiesIn(t, d.threads) * Occurrences(t.packets, f) + InThreads(S \ {t})
    IN  InCaptures(Len(d.captures)) + InThreads(ts)

\* the frames the workers have looked at since the counters were last reset:
\* every one is counted under exactly one of these names
Handled(stats) ==
    stats["dns.udp.invalid_size"] + stats["dns.udp.parse_question_failed"]
        + stats["dns.udp.parse_failed"] + stats["dns.udp.parsed"]

\* in this step worker t works through the batch it pulled
Processes(t) ==
    /\ BagIn(t, driver.threads)
    /\ t.kind = "worker"
    /\ t.pc = "process"
    /\ CopiesIn(t, driver'.threads) < CopiesIn(t, driver.threads)

(***************************************************************************)
(* C23: at most one worker is inside receive_packets of a capture at any   *)
(* time; a frame that has arrived is held in one place only, the capture   *)
(* or the batch of one worker, and when a worker works through its batch   *)
(* each frame of the batch is decoded once and leaves the batch.           *)
(***************************************************************************)
C23_OneReceiverEachFrameOnce ==
    /\ [](\A gen \in 1..Len(driver.captures) :
            /\ Cardinality(Receiving(driver, gen)) <= 1
            /\ \A t \in Receiving(driver, gen) : CopiesIn(t, driver.threads) = 1)
    /\ [](\A k \in 1..PoolFrames : Held(driver, PoolFrame(k)) <= 1)
    /\ [][\A t \in BagToSet(driver.threads) : Processes(t) =>
            /\ Handled(driver'.stats) = Handled(driver.stats) + Len(t.packets)
            /\ \A k \in 1..PoolFrames :
                  Held(driver', PoolFrame(k)) =
                      Held(driver, PoolFrame(k)) - Occurrences(t.packets, PoolFrame(k))]_vars

\* one worker holds the first frame in its batch while the other is inside
\* receive_packets and the second frame waits in the capture
C23_Witness ==
    /\ driven = "pool"
    /\ Cardinality(Receiving(driver, 1)) = 1
    /\ driver.captures[1].pending = <<PoolFrame(2)>>
    /\ \E t \in BagToSet(driver.threads) : t.pc = "process" /\ t.packets = <<PoolFrame(1)>>

\* a run is under way: start has spawned its threads and has not returned
InRun(d) == d.running /\ d.pc \in {"initialize", "start_capture", "join"}

(***************************************************************************)
(* C24: while a run is under way no step of a worker, of the capture or of *)
(* the stats thread lowers the value that get returns for a counter.       *)
(***************************************************************************)
C24_CountersNeverDecrease ==
    [][(InRun(driver) /\ InRun(driver')) =>
          \A k \in StatKeys : get(driver'.stats, k) >= get(driver.stats, k)]_vars

(***************************************************************************)
(* The output manager (output/mod.rs) and the worker handing it the        *)
(* messages of the batch it pulled.                                        *)
(***************************************************************************)
\* the order in which init() pushes the outputs it could build
OutputKinds == <<"kafka", "file", "statsd", "console">>

\* what output() of one output can return: KafkaOutput returns the error of
\* the send (kafka.rs:108-111), FileOutput that of the rotation, the write
\* or the flush (file.rs:158-168); StatsdOutput and ConsoleOutput return Ok
\* (statsd.rs:112-116, console.rs:87-102)
OutputResults(kind) == IF kind \in {"kafka", "file"} THEN {"Ok", "Err"} ELSE {"Ok"}

\* OutputManager::new: the outputs that are enabled and could be built
\* (ready), pushed in the order of init(); calls lists the calls of output
\* made on them, ret is what OutputManager::output returned last, packets the
\* batch of the worker and stats the counters
OutputManagerNew(ready, packets) ==
    [outputs |-> SelectSeq(OutputKinds, LAMBDA kind : kind \in ready),
     calls |-> <<>>,
     ret |-> "none",
     packets |-> packets,
     stats |-> StatsNew]

\* the calls of output made for a message: one on each of the first n outputs
OutputCalls(o, message, results, n) ==
    [i \in 1..n |-> [output |-> o.outputs[i],
                     transaction_id |-> message.transaction_id,
                     result |-> results[i]]]

\* the first output whose result is an error, Len + 1 when none is
FirstError(o, results) ==
    IF \E i \in 1..Len(o.outputs) : results[i] = "Err"
    THEN CHOOSE i \in 1..Len(o.outputs) :
            results[i] = "Err" /\ \A j \in 1..(i - 1) : results[j] = "Ok"
    ELSE Len(o.outputs) + 1

\* an OutputManager::output that returns the first error with ?
manager_output_until_error(o, message, results) ==
    LET e == FirstError(o, results)
    IN  IF e > Len(o.outputs)
        THEN [o EXCEPT !.calls = @ \o OutputCalls(o, message, results, Len(o.outputs)),
                       !.ret = "Ok"]
        ELSE [o EXCEPT !.calls = @ \o OutputCalls(o, message, results, e), !.ret = "Err"]

\* OutputManager::output (lines 146-154): output is called on every output
\* in turn, an error is printed, and Ok(()) is returned
manager_output(o, message, results) ==
    [o EXCEPT !.calls = @ \o OutputCalls(o, message, results, Len(o.outputs)),
              !.ret = "Ok"]

\* the message the worker gets out of a packet (driver.rs:112-126), if any
WorkerMessage(stats, packet_data) ==
    IF detect(DetectorNew, packet_data, 53, 53).kind = "Dns"
    THEN parse(udp_max_packet_size, packet_data, stats)
    ELSE [some |-> FALSE]

\* driver.rs lines 111-151 for the first packet of the batch: counted, and
\* when it is a message handed to the output manager, whose result is
\* dropped (let _ =); the loop goes on with the rest of the batch
worker_packet(o, results) ==
    LET packet_data == Head(o.packets)
        m == WorkerMessage(o.stats, packet_data)
        counted == [o EXCEPT !.stats = ProcessPacket(@, packet_data),
                             !.packets = Tail(@)]
    IN  IF m.some THEN manager_output(counted, m.message, results) ELSE counted

\* what a worker can find in its batch: a frame that is no message, and
\* messages told apart by their transaction id
OutputFrames == {<<1>>} \cup {PoolFrame(k) : k \in 1..PoolFrames}

InitOutput ==
    /\ driven = "output"
    /\ \E ready \in SUBSET {OutputKinds[i] : i \in 1..Len(OutputKinds)},
          packets \in SeqsUpTo(OutputFrames, PoolFrames) :
            output = OutputManagerNew(ready, packets)
    /\ driver = NoDriver
    /\ capture = NoCapture
    /\ ex = ExtractIdle
    /\ tcp = TcpNew(0, 0, 0)
    /\ dot = DotNew(0, 0, 0)
    /\ doq = DoqNew(0, 0, 0)
    /\ call = NoCall
    /\ offered = <<>>
    /\ feed = NoFeed
    /\ nd = NameIdle
    /\ ParseIdle

\* the worker handles the next packet of its batch
WorkerPacket ==
    /\ driven = "output"
    /\ output.packets # <<>>
    /\ \E results \in [1..Len(output.outputs) -> {"Ok", "Err"}] :
          /\ \A i \in 1..Len(output.outputs) : results[i] \in OutputResults(output.outputs[i])
          /\ output' = worker_packet(output, results)
    /\ UNCHANGED <<nd, pkt, sent, ret, driven, tcp, dot, doq, offered, feed, driver, capture, ex, call>>

NextOutput == WorkerPacket

SpecOutput == InitOutput /\ [][NextOutput]_vars

\* the calls made by the last step
NewCalls == SubSeq(output'.calls, Len(output.calls) + 1, Len(output'.calls))

(***************************************************************************)
(* C25: whatever the outputs return for a message, output is called on     *)
(* every configured output for it, once and in order, OutputManager::output*)
(* returns Ok, and the worker goes on to the next packet of its batch,     *)
(* which it can always handle.                                             *)
(***************************************************************************)
C25_SinkErrorDoesNotStopOthers ==
    /\ [][(output.packets # <<>> /\ WorkerMessage(output.stats, Head(output.packets)).some) =>
            LET m == WorkerMessage(output.stats, Head(output.packets)).message
            IN  /\ Len(NewCalls) = Len(output.outputs)
                /\ \A i \in 1..Len(output.outputs) :
                      /\ NewCalls[i].output = output.outputs[i]
                      /\ NewCalls[i].transaction_id = m.transaction_id
                /\ output'.ret = "Ok"
                /\ output'.packets = Tail(output.packets)
                /\ output'.outputs = output.outputs]_vars
    /\ [](output.packets # <<>> =>
            \E results \in [1..Len(output.outputs) -> {"Ok", "Err"}] :
                /\ \A i \in 1..Len(output.outputs) : results[i] \in OutputResults(output.outputs[i])
                /\ worker_packet(output, results).packets = Tail(output.packets))

\* the first output failed for a message, the output after it was still
\* called with it, and the worker has handled the next message as well
C25_Witness ==
    /\ driven = "output"
    /\ output.packets = <<>>
    /\ \E i, j, k \in 1..Len(output.calls) :
          /\ i < j /\ j < k
          /\ output.calls[i].result = "Err"
          /\ output.calls[j].transaction_id = output.calls[i].transaction_id
          /\ output.calls[j].output # output.calls[i].output
          /\ output.calls[k].transaction_id # output.calls[i].transaction_id

(***************************************************************************)
(* The capture backends and their handles: PcapCapture (capture/pcap.rs),  *)
(* XdpCapture (capture/xdp.rs) and DpdkInstance (core/dpdk.rs).  A backend *)
(* is its kind, the handles it holds, its flags, whether its XDP program   *)
(* is attached to the interface, and the latest call made on it with what  *)
(* that call did to the handles (effects); calls counts the calls made on  *)
(* it and log lists what they did, in order.                               *)
(***************************************************************************)
BackendKinds == {"pcap", "xdp", "dpdk"}

\* calls made on one backend in a run
MaxCalls == 4

\* XdpCapture::new, PcapCapture::new, DpdkInstance::new
BackendNew(kind) ==
    [kind |-> kind, handles |-> {}, is_capturing |-> FALSE, initialized |-> FALSE,
     attached |-> FALSE, op |-> "new", ret |-> "()", effects |-> <<>>,
     calls |-> 0, log |-> <<>>]

\* how an initialize can end for each kind: Ok, or the step that failed
InitializeResults(kind) ==
    IF kind = "xdp" THEN {"Ok", "program", "interface", "attach", "socket"}
    ELSE IF kind = "dpdk" THEN {"Ok", "eal", "mempool", "first_port", "later_port"}
    ELSE {"Ok", "open"}

\* XdpCapture::initialize (lines 95-149): the program is loaded, the
\* interface found, the program attached and the socket with its umem
\* created; when the socket fails the program is detached again
xdp_initialize(c, r) ==
    LET called == [c EXCEPT !.op = "initialize", !.ret = IF r = "Ok" THEN "Ok" ELSE "Err"]
    IN  IF r \in {"program", "interface", "attach"}
        THEN [called EXCEPT !.effects = <<>>]
        ELSE IF r = "socket"
        THEN [called EXCEPT !.effects = <<"attach", "detach">>, !.attached = FALSE]
        ELSE [called EXCEPT !.effects = <<"attach", "socket">>,
                            !.attached = TRUE,
                            !.handles = {"interface", "program", "socket"}]

\* XdpCapture::shutdown with the detach moved before the release of the socket
xdp_shutdown_detach_first(c) ==
    [c EXCEPT !.op = "shutdown", !.ret = "()",
              !.effects = (IF "interface" \in c.handles THEN <<"detach">> ELSE <<>>)
                            \o (IF "socket" \in c.handles THEN <<"release_socket">> ELSE <<>>),
              !.attached = IF "interface" \in c.handles THEN FALSE ELSE @,
              !.handles = {},
              !.is_capturing = FALSE]

\* XdpCapture::shutdown (lines 263-279): the socket, and the umem it owns, is
\* dropped; then the program is detached if the interface is held; then the
\* interface and the program are dropped
xdp_shutdown(c) ==
    [c EXCEPT !.op = "shutdown", !.ret = "()",
              !.effects = (IF "socket" \in c.handles THEN <<"release_socket">> ELSE <<>>)
                            \o (IF "interface" \in c.handles THEN <<"detach">> ELSE <<>>),
              !.attached = IF "interface" \in c.handles THEN FALSE ELSE @,
              !.handles = {},
              !.is_capturing = FALSE]

\* DpdkInstance::initialize (lines 76-171): nothing when already initialized;
\* else the EAL, the memory pool, which is stored at once (line 111), and
\* the ports, each stored once it is started (line 165); initialized is set
\* after the last port only
dpdk_initialize(c, r) ==
    LET called == [c EXCEPT !.op = "initialize", !.ret = IF r = "Ok" THEN "Ok" ELSE "Err"]
    IN  IF c.initialized
        THEN [c EXCEPT !.op = "initialize", !.ret = "Ok", !.effects = <<>>]
        ELSE IF r \in {"eal", "mempool"}
        THEN [called EXCEPT !.effects = <<>>]
        ELSE IF r = "first_port"
        THEN [called EXCEPT !.effects = <<"mempool">>, !.handles = @ \cup {"mempool"}]
        ELSE IF r = "later_port"
        THEN [called EXCEPT !.effects = <<"mempool", "port">>,
                            !.handles = @ \cup {"mempool", "ports"}]
        ELSE [called EXCEPT !.effects = <<"mempool", "port">>,
                            !.handles = @ \cup {"mempool", "ports"},
                            !.initialized = TRUE]

\* a DpdkInstance::shutdown that cleans up whatever the flag says
dpdk_shutdown_unconditional(c) ==
    [c EXCEPT !.op = "shutdown", !.ret = "()",
              !.effects = (IF "ports" \in c.handles THEN <<"stop_ports">> ELSE <<>>)
                            \o (IF "mempool" \in c.handles THEN <<"release_mempool">> ELSE <<>>),
              !.handles = {},
              !.initialized = FALSE]

\* DpdkInstance::shutdown (lines 290-311): returns at once when initialized
\* is false; else stops the ports, clears them and drops the memory pool
dpdk_shutdown(c) ==
    IF ~c.initialized
    THEN [c EXCEPT !.op = "shutdown", !.ret = "()", !.effects = <<>>]
    ELSE [c EXCEPT !.op = "shutdown", !.ret = "()",
                   !.effects = <<"stop_ports", "release_mempool">>,
                   !.handles = {},
                   !.initialized = FALSE]

\* PcapCapture::initialize (pcap.rs lines 45-139): the capture is opened
pcap_initialize(c, r) ==
    IF r = "Ok"
    THEN [c EXCEPT !.op = "initialize", !.ret = "Ok", !.effects = <<"open">>,
                   !.handles = {"capture"}]
    ELSE [c EXCEPT !.op = "initialize", !.ret = "Err", !.effects = <<>>]

\* PcapCapture::shutdown (pcap.rs lines 238-245)
pcap_shutdown(c) ==
    [c EXCEPT !.op = "shutdown", !.ret = "()",
              !.effects = IF "capture" \in c.handles THEN <<"release_capture">> ELSE <<>>,
              !.handles = {},
              !.is_capturing = FALSE]

\* initialize of a backend
backend_initialize(c, r) ==
    IF c.kind = "xdp" THEN xdp_initialize(c, r)
    ELSE IF c.kind = "dpdk" THEN dpdk_initialize(c, r)
    ELSE pcap_initialize(c, r)

\* start_capture (xdp.rs lines 159-168, pcap.rs lines 141-159): an error
\* without the socket or the capture, else is_capturing is set; a
\* DpdkInstance has no such call
backend_start_capture(c) ==
    IF (c.kind = "xdp" /\ "socket" \notin c.handles) \/ (c.kind = "pcap" /\ "capture" \notin c.handles)
    THEN [c EXCEPT !.op = "start_capture", !.ret = "Err", !.effects = <<>>]
    ELSE [c EXCEPT !.op = "start_capture", !.ret = "Ok", !.effects = <<>>,
                   !.is_capturing = TRUE]

\* stop_capture (xdp.rs lines 176-178, pcap.rs lines 161-163)
backend_stop_capture(c) ==
    [c EXCEPT !.op = "stop_capture", !.ret = "()", !.effects = <<>>, !.is_capturing = FALSE]

\* shutdown of a backend, also run when it is dropped
shutdown(c) ==
    IF c.kind = "xdp" THEN xdp_shutdown(c)
    ELSE IF c.kind = "dpdk" THEN dpdk_shutdown(c)
    ELSE pcap_shutdown(c)

InitBackend ==
    /\ driven = "backend"
    /\ \E kind \in BackendKinds : capture = BackendNew(kind)
    /\ ex = ExtractIdle
    /\ driver = NoDriver
    /\ output = NoOutput
    /\ tcp = TcpNew(0, 0, 0)
    /\ dot = DotNew(0, 0, 0)
    /\ doq = DoqNew(0, 0, 0)
    /\ call = NoCall
    /\ offered = <<>>
    /\ feed = NoFeed
    /\ nd = NameIdle
    /\ ParseIdle

\* the backend after a call that took c to d
AfterCall(c, d) == [d EXCEPT !.calls = c.calls + 1, !.log = c.log \o d.effects]

\* a step of a backend changes the backend only
BackendOnly ==
    /\ driven = "backend"
    /\ capture.calls < MaxCalls
    /\ UNCHANGED <<nd, pkt, sent, ret, driven, tcp, dot, doq, offered, feed, driver, output, ex, call>>

\* initialize is called on a backend that holds no handle of an earlier
\* successful initialize: the driver initializes a capture once
BackendInitialize ==
    /\ BackendOnly
    /\ capture.handles \cap {"socket", "capture"} = {}
    /\ \E r \in InitializeResults(capture.kind) : capture' = AfterCall(capture, backend_initialize(capture, r))

BackendStartCapture ==
    /\ BackendOnly
    /\ capture.kind # "dpdk"
    /\ capture' = AfterCall(capture, backend_start_capture(capture))

BackendStopCapture ==
    /\ BackendOnly
    /\ capture.kind # "dpdk"
    /\ capture' = AfterCall(capture, backend_stop_capture(capture))

BackendShutdown ==
    /\ BackendOnly
    /\ capture' = AfterCall(capture, shutdown(capture))

NextBackend ==
    \/ BackendInitialize
    \/ BackendStartCapture
    \/ BackendStopCapture
    \/ BackendShutdown

SpecBackend == InitBackend /\ [][NextBackend]_vars

\* this step is a call of shutdown, of initialize
ShutdownCalled == capture'.calls = capture.calls + 1 /\ capture'.op = "shutdown"

InitializeCalled == capture'.calls = capture.calls + 1 /\ capture'.op = "initialize"

\* the backend is not capturing and holds no handle
Released(c) == c.handles = {} /\ ~c.is_capturing

(***************************************************************************)
(* C26: whatever was called on a backend before, shutdown leaves it not    *)
(* capturing and holding no handle, and a shutdown after a shutdown        *)
(* changes nothing and releases, stops or detaches nothing.                *)
(***************************************************************************)
C26_ShutdownReleasesFromEveryState ==
    /\ [][ShutdownCalled => Released(capture')]_vars
    /\ [](LET once == shutdown(capture)
              twice == shutdown(once)
          IN  /\ twice.effects = <<>>
              /\ twice.handles = once.handles
              /\ twice.is_capturing = once.is_capturing
              /\ twice.initialized = once.initialized
              /\ twice.attached = once.attached)

\* "detach" comes before "release_socket" wherever both are in effects
DetachBeforeRelease(effects) ==
    \A i, j \in 1..Len(effects) :
        (effects[i] = "detach" /\ effects[j] = "release_socket") => i < j

(***************************************************************************)
(* C27: a shutdown of an XdpCapture detaches the program before it         *)
(* releases the socket with its umem; a program that is attached can       *)
(* still be detached by shutdown, an initialize that fails leaves it       *)
(* detached and so does every shutdown.                                    *)
(***************************************************************************)
C27_DetachBeforeRelease ==
    /\ [][(capture.kind = "xdp" /\ ShutdownCalled) =>
            /\ DetachBeforeRelease(capture'.effects)
            /\ ~capture'.attached]_vars
    /\ [][(capture.kind = "xdp" /\ InitializeCalled /\ capture'.ret = "Err") =>
            ~capture'.attached]_vars
    /\ [](capture.attached => "interface" \in capture.handles)

\* the sessions of before that are gone in after although they were not idle
\* for longer than the timeout at time now
RemovedFresh(before, after, now, session_timeout_ms) ==
    {k \in DOMAIN before \ DOMAIN after : before[k].last_seen >= now - session_timeout_ms}

\* update_time(now) removed no session that was not idle for longer than the
\* timeout
UpdateTimeKeepsFresh(before, after, now, session_timeout_ms) ==
    RemovedFresh(before, after, now, session_timeout_ms) = {}

\* a data call at time now removed at most one session that was not idle for
\* longer than the timeout, the one that made room, and only when the sessions
\* that were not idle filled the table by themselves
InsertKeepsFresh(before, after, now, session_timeout_ms, max_sessions) ==
    LET fresh == {k \in DOMAIN before : before[k].last_seen >= now - session_timeout_ms}
        gone == RemovedFresh(before, after, now, session_timeout_ms)
    IN  /\ Cardinality(gone) <= 1
        /\ gone # {} => Cardinality(fresh) >= max_sessions

(***************************************************************************)
(* C28: in each reassembler the idle eviction of update_time and of an     *)
(* insertion into a full table removes only sessions with                  *)
(* last_seen < now - session_timeout_ms, also when now is smaller than the *)
(* timeout and when last_seen is exactly now - session_timeout_ms; what an *)
(* insertion removes besides is the one session that makes room.           *)
(***************************************************************************)
C28_IdleEvictionOnlyExpired ==
    /\ [][call'.op = "update_time" =>
            /\ UpdateTimeKeepsFresh(tcp.tcp_sessions, tcp'.tcp_sessions,
                                    call'.time_ms, tcp.session_timeout_ms)
            /\ UpdateTimeKeepsFresh(dot.tls_sessions, dot'.tls_sessions,
                                    call'.time_ms, dot.session_timeout_ms)
            /\ UpdateTimeKeepsFresh(dot.tcp_parser.tcp_sessions, dot'.tcp_parser.tcp_sessions,
                                    call'.time_ms, dot.tcp_parser.session_timeout_ms)
            /\ UpdateTimeKeepsFresh(doq.quic_sessions, doq'.quic_sessions,
                                    call'.time_ms, doq.session_timeout_ms)]_vars
    /\ [][call'.op \in {"process_tcp_segment", "process_tls_data", "process_quic_data"} =>
            /\ InsertKeepsFresh(tcp.tcp_sessions, tcp'.tcp_sessions, tcp.current_time_ms,
                                tcp.session_timeout_ms, tcp.max_sessions)
            /\ InsertKeepsFresh(dot.tls_sessions, dot'.tls_sessions, dot.current_time_ms,
                                dot.session_timeout_ms, dot.max_sessions)
            /\ InsertKeepsFresh(dot.tcp_parser.tcp_sessions, dot'.tcp_parser.tcp_sessions,
                                dot.tcp_parser.current_time_ms,
                                dot.tcp_parser.session_timeout_ms, dot.tcp_parser.max_sessions)
            /\ InsertKeepsFresh(doq.quic_sessions, doq'.quic_sessions, doq.current_time_ms,
                                doq.session_timeout_ms, doq.max_sessions)]_vars

\* the call has returned a name after it followed a pointer or read a label
NameReturnedAfterMoving == nd.pc = "some" /\ (nd.jumped \/ nd.name # <<>>)

(***************************************************************************)
(* C29: name decoding fails when its cursor leaves the slice: no name is   *)
(* returned by a call whose cursor, after a pointer was followed or a      *)
(* label read, stands at or past the end of the slice instead of on a      *)
(* terminating zero byte.                                                  *)
(***************************************************************************)
C29_CursorOutsideSliceFails ==
    NameReturnedAfterMoving => nd.pos < Len(nd.data)

(***************************************************************************)
(* C30: when a name is returned, the next offset is the position after the *)
(* terminating zero byte if no pointer was followed, and otherwise the     *)
(* offset of the first pointer followed plus 2, whatever was followed      *)
(* after it; it is never greater than the length of the slice.             *)
(***************************************************************************)
C30_NextOffsetAfterName ==
    /\ [][(nd.pc = "loop" /\ ~nd.jumped /\ nd'.jumped) => nd'.next_pos = nd.pos + 2]_vars
    /\ [][(nd.pc = "loop" /\ nd.jumped) => nd'.next_pos = nd.next_pos]_vars
    /\ []((nd.pc = "some" /\ ~nd.jumped) =>
            /\ nd.pos < Len(nd.data)
            /\ nd.data[nd.pos + 1] = 0
            /\ nd.next_pos = nd.pos + 1)
    /\ [](nd.pc = "some" => nd.next_pos <= Len(nd.data))

(***************************************************************************)
(* process_tcp_segment taken a turn of its extraction loop at a time, on   *)
(* one flow of a reassembler whose buffer holds a few bytes, fed segments  *)
(* of any content.                                                         *)
(***************************************************************************)
\* the bytes segments are made of: length prefixes of 0 and 1 fit the buffer
ExtractBytes == {0, 1}

\* max_packet_size of the reassembler, and the longest segment handed over
ExtractPacketSize == MaxPacketSize + 2

ExtractSegments == SeqsUpTo(ExtractBytes, MaxPacketSize + 1)

\* lines 60-100: the session is found or created, last_seen set and data
\* appended; on overflow the buffer is cleared and the call returns, else the
\* loop starts on the buffer.  table is the table after line 87.
extract_enter(p, table, session_id, data) ==
    LET appended == table[session_id].buffer \o data
        locals == [pc |-> "loop", before |-> p, session_id |-> session_id, data |-> data,
                   buffer |-> appended, results |-> <<>>, stats |-> StatsNew, turns |-> 0]
    IN  IF Len(appended) > p.max_packet_size
        THEN [locals EXCEPT !.pc = "returned", !.buffer = <<>>,
                            !.stats = Increment(StatsNew, "dns.tcp.buffer_overflow")]
        ELSE locals

\* a turn of the loop that drains the message and leaves its length prefix
extract_turn_keeps_prefix(max_packet_size, s) ==
    IF Len(s.buffer) >= 2
    THEN LET message_length == U16(s.buffer[1], s.buffer[2])
         IN  IF Len(s.buffer) >= message_length + 2
             THEN [s EXCEPT !.buffer = SubSeq(s.buffer, 1, 2)
                                         \o Slice(s.buffer, message_length + 2, Len(s.buffer)),
                            !.turns = @ + 1]
             ELSE [s EXCEPT !.pc = "returned"]
    ELSE [s EXCEPT !.pc = "returned"]

\* one evaluation of the loop condition of line 103 and, when it holds, of
\* the body, lines 104-124
extract_turn(max_packet_size, s) ==
    IF Len(s.buffer) >= 2
    THEN LET message_length == U16(s.buffer[1], s.buffer[2])
         IN  IF Len(s.buffer) >= message_length + 2
             THEN LET r == parse(max_packet_size, Slice(s.buffer, 2, message_length + 2), s.stats)
                  IN  [s EXCEPT !.buffer = Slice(s.buffer, message_length + 2, Len(s.buffer)),
                                !.results = IF r.some
                                            THEN Append(@, [r.message EXCEPT !.protocol = "Tcp"])
                                            ELSE @,
                                !.stats = r.stats,
                                !.turns = @ + 1]
             ELSE [s EXCEPT !.pc = "returned"]
    ELSE [s EXCEPT !.pc = "returned"]

\* the parser while the call with locals s is under way: the session of the
\* call holds the buffer the loop works on
extract_parser(p, table, s) ==
    [p EXCEPT !.tcp_sessions =
        [table EXCEPT ![s.session_id] = [buffer |-> s.buffer, last_seen |-> p.current_time_ms]]]

InitExtract ==
    /\ driven = "extract"
    /\ tcp = TcpNew(ExtractPacketSize, 1, SessionTimeoutMs)
    /\ ex = ExtractIdle
    /\ dot = DotNew(0, 0, 0)
    /\ doq = DoqNew(0, 0, 0)
    /\ driver = NoDriver
    /\ output = NoOutput
    /\ capture = NoCapture
    /\ call = NoCall
    /\ offered = <<>>
    /\ feed = NoFeed
    /\ nd = NameIdle
    /\ ParseIdle

\* process_tcp_segment is called with data on StreamFlow
ExtractCall(data) ==
    /\ driven = "extract"
    /\ ex.pc \in {"idle", "returned"}
    /\ \E table \in TcpEntry(tcp, StreamFlow) :
          /\ ex' = extract_enter(tcp, table, StreamFlow, data)
          /\ tcp' = extract_parser(tcp, table, ex')
    /\ UNCHANGED <<nd, pkt, sent, ret, driven, dot, doq, offered, feed, driver, output, capture, call>>

\* the call under way evaluates its loop once more
ExtractTurn1 ==
    /\ driven = "extract"
    /\ ex.pc = "loop"
    /\ ex' = extract_turn(tcp.max_packet_size, ex)
    /\ tcp' = extract_parser(tcp, tcp.tcp_sessions, ex')
    /\ UNCHANGED <<nd, pkt, sent, ret, driven, dot, doq, offered, feed, driver, output, capture, call>>

NextExtract ==
    \/ \E data \in ExtractSegments : ExtractCall(data)
    \/ ExtractTurn1

\* the loop is sequential code: a call under way keeps running
SpecExtract == InitExtract /\ [][NextExtract]_vars /\ WF_vars(ExtractTurn1)

\* the buffer starts with a whole message: a length prefix and as many bytes
\* as it announces
WholeMessage(buffer) ==
    Len(buffer) >= 2 /\ Len(buffer) >= 2 + U16(buffer[1], buffer[2])

(***************************************************************************)
(* C31: the extraction loop of process_tcp_segment ends whatever the       *)
(* buffer holds, a length prefix of 0 included; when the call returns, the *)
(* buffer of its session does not start with a whole message, and the call *)
(* has done what process_tcp_segment does as a whole.                      *)
(***************************************************************************)
C31_ExtractionLoopEnds ==
    /\ (ex.pc = "loop") ~> (ex.pc = "returned")
    /\ [](ex.pc = "returned" =>
            /\ ~WholeMessage(tcp.tcp_sessions[ex.session_id].buffer)
            /\ [parser |-> tcp, results |-> ex.results, stats |-> ex.stats]
                  \in process_tcp_segment(ex.before, ex.session_id, ex.data, StatsNew))

\* a call has returned after its loop took two messages of length 0 out of
\* the buffer
C31_Witness ==
    /\ driven = "extract"
    /\ ex.pc = "returned"
    /\ BufferOf(ex.before, StreamFlow) \o ex.data = <<0, 0, 0, 0>>
    /\ ex.turns = 2
    /\ tcp.tcp_sessions[StreamFlow].buffer = <<>>

\* the call for flow took the table from before to after at clock now: the
\* session of flow is stamped with now, and every other session of after was
\* in before with the same last_seen and buffer
StampsOwnSessionOnly(before, after, flow, now) ==
    /\ flow \in DOMAIN after
    /\ after[flow].last_seen = now
    /\ \A g \in DOMAIN after \ {flow} : g \in DOMAIN before /\ after[g] = before[g]

(***************************************************************************)
(* C32: a process_tcp_segment call for a flow sets the last_seen of the    *)
(* session of that flow to the clock of the reassembler and leaves the     *)
(* last_seen and the buffer of every other session still in the table as   *)
(* they were.                                                              *)
(***************************************************************************)
C32_SegmentStampsOwnSession ==
    [][call'.op = "process_tcp_segment" =>
          StampsOwnSessionOnly(tcp.tcp_sessions, tcp'.tcp_sessions,
                               call'.flow, tcp.current_time_ms)]_vars

\* a segment arrived at clock 2 for a flow that had a session, while another
\* session last seen at clock 1 stays in the table
C32_Witness ==
    /\ driven = "tcp"
    /\ call.op = "process_tcp_segment"
    /\ ~call.fresh
    /\ tcp.current_time_ms = 2
    /\ tcp.tcp_sessions[call.flow].last_seen = 2
    /\ \E g \in DOMAIN tcp.tcp_sessions \ {call.flow} : tcp.tcp_sessions[g].last_seen = 1

\* the call was the first for its flow: the flow had no session; it returned
\* nothing and counted one completed handshake under key and nothing else,
\* and the session of the flow in table is Established with an empty buffer
HandshakeOnly(c, table, key) ==
    /\ c.results = <<>>
    /\ c.stats = Increment(StatsNew, key)
    /\ c.flow \in DOMAIN table
    /\ table[c.flow].state = "Established"
    /\ table[c.flow].buffer = <<>>

(***************************************************************************)
(* C33: the first packet of a DoT or DoQ flow, one that finds no session   *)
(* of its flow (never seen, or evicted since), only takes the new session  *)
(* to Established and counts one handshake_completed: no message is        *)
(* returned, the decoder counts nothing, and the TCP reassembler inside    *)
(* the DoT reassembler is left as it was.                                  *)
(***************************************************************************)
C33_FirstPacketIsHandshake ==
    /\ [][(call'.op = "process_tls_data" /\ call'.fresh) =>
            /\ HandshakeOnly(call', dot'.tls_sessions, "dns.dot.handshake_completed")
            /\ dot'.tcp_parser = dot.tcp_parser]_vars
    /\ [][(call'.op = "process_quic_data" /\ call'.fresh) =>
            HandshakeOnly(call', doq'.quic_sessions, "dns.doq.handshake_completed")]_vars

\* a whole query arrived as the first packet of a DoQ flow while the table
\* was full, and nothing was returned
C33_Witness ==
    /\ driven = "doq"
    /\ call.op = "process_quic_data"
    /\ call.fresh
    /\ call.data = MinimalQuery
    /\ doq.max_sessions >= 1
    /\ call.size_before = doq.max_sessions
    /\ call.results = <<>>

(***************************************************************************)
(* C34: in the DoT reassembler every flow that has a session in the TCP    *)
(* reassembler inside it has a TLS session too; so a packet that finds no  *)
(* TLS session of its flow finds no bytes of that flow buffered in the TCP *)
(* reassembler either, and reassembly restarts from an empty buffer.       *)
(***************************************************************************)
C34_InnerSessionsHaveTlsSession ==
    /\ [](DOMAIN dot.tcp_parser.tcp_sessions \subseteq DOMAIN dot.tls_sessions)
    /\ [][(call'.op = "process_tls_data" /\ call'.fresh) =>
            BufferOf(dot'.tcp_parser, call'.flow) = <<>>]_vars

(***************************************************************************)
(* The states of DoT and DoQ sessions.                                     *)
(***************************************************************************)
\* no session of the table is closed
NoneClosed(table) == \A k \in DOMAIN table : table[k].state # "Closed"

\* the sessions that are in both tables kept their state or went from
\* Handshake to Established
OnlyHandshakeToEstablished(before, after) ==
    \A k \in DOMAIN before \cap DOMAIN after :
        \/ after[k].state = before[k].state
        \/ before[k].state = "Handshake" /\ after[k].state = "Established"

\* the flows that have a session in before and none in after
Left(before, after) == DOMAIN before \ DOMAIN after

\* C35: no DoT or DoQ session is ever Closed; a step changes the state of a
\* session only from Handshake to Established; a session leaves its table
\* only in update_time or when a call finds the table full and makes room;
\* and no call increments dns.dot.data_after_close or dns.doq.data_after_close
C35_NoSessionCloses ==
    /\ [](NoneClosed(dot.tls_sessions) /\ NoneClosed(doq.quic_sessions))
    /\ [][/\ OnlyHandshakeToEstablished(dot.tls_sessions, dot'.tls_sessions)
          /\ OnlyHandshakeToEstablished(doq.quic_sessions, doq'.quic_sessions)
          /\ Left(dot.tls_sessions, dot'.tls_sessions) # {} =>
                \/ call'.op = "update_time"
                \/ /\ call'.op = "process_tls_data"
                   /\ call'.fresh
                   /\ call'.size_before >= dot.max_sessions
          /\ Left(doq.quic_sessions, doq'.quic_sessions) # {} =>
                \/ call'.op = "update_time"
                \/ /\ call'.op = "process_quic_data"
                   /\ call'.size_before >= doq.max_sessions
          /\ call'.op = "process_tls_data" =>
                call'.stats["dns.dot.data_after_close"] = 0
          /\ call'.op = "process_quic_data" =>
                call'.stats["dns.doq.data_after_close"] = 0]_vars

\* a packet of an established DoT flow has been handed to the inner
\* reassembler, which buffered it
C35_Witness ==
    /\ call.op = "process_tls_data"
    /\ ~call.fresh
    /\ dot.max_sessions = 1
    /\ dot.tls_sessions[call.flow].state = "Established"
    /\ BufferOf(dot.tcp_parser, call.flow) = call.data

(***************************************************************************)
(* Calls of parse that share one StatsCounter, and resets of it.  The      *)
(* first call decodes any of ParseInputs, the later ones a message of      *)
(* CountedInputs, which holds one message for each way parse can end.      *)
(***************************************************************************)
\* calls of parse in one behaviour
MaxParses == 3

CountedInputs ==
    {<<>>,                                                       \* too short
     Header(4660, 256, 1, 0) \o <<1, 97, 0, 0, 1>>,              \* question cut short
     Header(4660, 256, 0, 1) \o AnswerBytes(PointerTo12, 1, 9, <<1, 2>>),
     Header(4660, 256, 1, 1) \o QuestionBytes(NameA)
         \o AnswerBytes(PointerTo12, 1, 9, <<1, 2>>),            \* answer fails after a question
     MinimalQuery,
     MinimalResponse}

InitCount ==
    /\ pkt \in ParseInputs
    /\ sent = NoSent
    /\ ret = [done |-> FALSE, calls |-> 0, some |-> FALSE, stats |-> StatsNew]
    /\ nd = NameIdle
    /\ ReassemblersIdle

\* what is kept of a call of parse that returned r: whether it returned a
\* message, and the statistics
Counted(r, calls) ==
    [done |-> TRUE, calls |-> calls, some |-> r.some, stats |-> r.stats]

\* a call of parse on data with the statistics of the calls before it; the
\* slice is the caller's and is not kept
ParseCall(data) ==
    /\ ret.calls < MaxParses
    /\ pkt' = <<>>
    /\ ret' = Counted(parse(udp_max_packet_size, data, ret.stats), ret.calls + 1)
    /\ UNCHANGED <<nd, sent, driven, tcp, dot, doq, offered, feed, driver, output, capture, ex, call>>

\* the first call decodes the message the behaviour starts with
ParseFirst == ret.calls = 0 /\ ParseCall(pkt)

ParseAgain(data) == ret.calls > 0 /\ ParseCall(data)

\* StatsCounter::print_and_reset: the counters are cleared
PrintAndReset ==
    /\ ret.done
    /\ ret.stats # StatsNew
    /\ ret' = [ret EXCEPT !.stats = StatsNew]
    /\ UNCHANGED <<nd, pkt, sent, driven, tcp, dot, doq, offered, feed, driver, output, capture, ex, call>>

NextCount ==
    \/ ParseFirst
    \/ \E data \in CountedInputs : ParseAgain(data)
    \/ PrintAndReset

SpecCount == InitCount /\ [][NextCount]_vars

\* the counters of the four ways a call of parse can end
ParseOutcomeKeys ==
    {"dns.udp.invalid_size", "dns.udp.parse_question_failed",
     "dns.udp.parse_failed", "dns.udp.parsed"}

\* C36: a call of parse increments exactly one of dns.udp.invalid_size,
\* dns.udp.parse_question_failed, dns.udp.parse_failed and dns.udp.parsed,
\* by one; it returns a message exactly when that one is dns.udp.parsed; and
\* dns.udp.parsed equals dns.udp.query + dns.udp.response at all times
C36_OneOutcomeCounterPerParse ==
    /\ [][ret'.calls = ret.calls + 1 =>
            /\ \A k \in ParseOutcomeKeys : get(ret'.stats, k) >= get(ret.stats, k)
            /\ Handled(ret'.stats) = Handled(ret.stats) + 1
            /\ ret'.some <=>
                 get(ret'.stats, "dns.udp.parsed") = get(ret.stats, "dns.udp.parsed") + 1]_vars
    /\ [](get(ret.stats, "dns.udp.parsed") =
                get(ret.stats, "dns.udp.query") + get(ret.stats, "dns.udp.response"))

\* since the last reset a query and a response have been returned, the
\* response without the answer that failed, and a third call has failed
C36_Witness ==
    /\ ret.calls = 3
    /\ ~ret.some
    /\ get(ret.stats, "dns.udp.parsed") = 2
    /\ get(ret.stats, "dns.udp.query") = 1
    /\ get(ret.stats, "dns.udp.response") = 1
    /\ get(ret.stats, "dns.udp.parse_answer_failed") = 1
    /\ get(ret.stats, "dns.udp.parse_question_failed") = 1

(***************************************************************************)
(* The mutexes of one call of start (src/core/driver.rs): running and      *)
(* stats are fields of the driver, capture, detector, dns_parser and       *)
(* output_manager are created by the call.  A thread is at a pc; at some   *)
(* pcs it is about to call lock() on a mutex, and at some it holds guards. *)
(* A mutex is held when some thread is at a pc where it holds its guard.   *)
(***************************************************************************)
\* worker_threads of the driver whose mutexes are followed
LockWorkers == MaxWorkers + 1

\* the thread that calls start, a stats thread or a worker as it begins
LockThread(kind) ==
    [kind |-> kind, pc |-> IF kind = "start" THEN "entry" ELSE "top", left |-> 0]

\* the mutex a thread at pc is about to lock, "none" when it is not at a
\* lock() call: driver.rs lines 47, 76, 103, 167 and 177 (running), 106, 164
\* and 174 (capture), 113, 122, 136, and 81, 123, 130, 143 and 148 (stats);
\* pcap.rs line 191 inside receive_packets
LockWanted(t) ==
    CASE t.pc \in {"entry", "top", "failed"} -> "running"
      [] t.pc \in {"capture", "initialize", "start_capture"} -> "capture"
      [] t.pc = "detector" -> "detector"
      [] t.pc = "parser" -> "dns_parser"
      [] t.pc = "output" -> "output_manager"
      [] t.pc \in {"stats", "receive", "parser_stats", "processed", "count"} -> "stats"
      [] OTHER -> "none"

\* the guards a thread at pc holds: each guard is a local of a block or a
\* temporary of a loop condition, and is dropped where that ends
GuardsAt(pc) ==
    CASE pc \in {"set_running", "clear_running", "running"} -> {"running"}
      [] pc \in {"initializing", "starting", "not_capturing", "receive", "received"} ->
            {"capture"}
      [] pc = "receive_stats" -> {"capture", "stats"}
      [] pc = "detect" -> {"detector"}
      [] pc \in {"parser_stats", "parsed"} -> {"dns_parser"}
      [] pc = "parse" -> {"dns_parser", "stats"}
      [] pc \in {"print", "increment", "counted"} -> {"stats"}
      [] pc = "emit" -> {"output_manager"}
      [] OTHER -> {}

\* a worker whose stats guard of line 123 is still alive when it locks stats
\* again at line 130
LocksHeldKeepsStatsGuard(t) ==
    IF t.pc = "processed" THEN {"stats"} ELSE GuardsAt(t.pc)

\* the mutexes thread t holds
LocksHeld(t) == GuardsAt(t.pc)

\* no thread holds mutex m
LockFree(d, m) == \A t \in BagToSet(d.threads) : m \notin LocksHeld(t)

\* Driver::new, with the thread that is about to call start
LockDriverNew(worker_threads) ==
    [worker_threads |-> worker_threads,
     running |-> FALSE,
     is_capturing |-> FALSE,
     spawned |-> 0,
     threads |-> SetToBag({LockThread("start")})]

\* every worker spawned has ended
LockWorkersEnded(d) == \A t \in BagToSet(d.threads) : t.kind # "worker"

\* thread t is not waiting: the mutex it is about to lock is free, and
\* the joins of lines 185-187 wait for the workers
CanStep(d, t) ==
    /\ t.pc # "returned"
    /\ LockWanted(t) # "none" => LockFree(d, LockWanted(t))
    /\ t.pc = "join" => LockWorkersEnded(d)

\* the worker goes on to its next packet, or sleeps when the batch is done
NextPacket(t) ==
    [t EXCEPT !.left = @ - 1, !.pc = IF t.left = 1 THEN "sleep" ELSE "detector"]

\* lines 102-157 and, inside receive_packets, pcap.rs lines 165-197: the
\* states a worker can be in after its next step
worker_next(d, t) ==
    CASE t.pc = "top" -> {[t EXCEPT !.pc = "running"]}
      [] t.pc = "running" -> {[t EXCEPT !.pc = IF d.running THEN "capture" ELSE "exited"]}
      [] t.pc = "capture" ->
            {[t EXCEPT !.pc = IF d.is_capturing THEN "receive" ELSE "not_capturing"]}
      [] t.pc = "not_capturing" -> {[t EXCEPT !.pc = "sleep"]}
      [] t.pc = "receive" -> {[t EXCEPT !.pc = "receive_stats"]}
      [] t.pc = "receive_stats" -> {[t EXCEPT !.pc = "received"]}
      [] t.pc = "received" ->
            {[t EXCEPT !.left = n, !.pc = IF n = 0 THEN "sleep" ELSE "detector"] :
                n \in 0..MaxFrames}
      [] t.pc = "detector" -> {[t EXCEPT !.pc = "detect"]}
      [] t.pc = "detect" -> {[t EXCEPT !.pc = "parser"], [t EXCEPT !.pc = "count"]}
      [] t.pc = "parser" -> {[t EXCEPT !.pc = "parser_stats"]}
      [] t.pc = "parser_stats" -> {[t EXCEPT !.pc = "parse"]}
      [] t.pc = "parse" -> {[t EXCEPT !.pc = "parsed"]}
      [] t.pc = "parsed" -> {[t EXCEPT !.pc = "processed"], NextPacket(t)}
      [] t.pc = "processed" -> {[t EXCEPT !.pc = "increment"]}
      [] t.pc = "increment" -> {[t EXCEPT !.pc = "output"]}
      [] t.pc = "output" -> {[t EXCEPT !.pc = "emit"]}
      [] t.pc = "emit" -> {NextPacket(t)}
      [] t.pc = "count" -> {[t EXCEPT !.pc = "counted"]}
      [] t.pc = "counted" -> {NextPacket(t)}
      [] t.pc = "sleep" -> {[t EXCEPT !.pc = "top"]}

\* lines 73-86: the states the stats thread can be in after its next step
stats_next(d, t) ==
    CASE t.pc = "top" -> {[t EXCEPT !.pc = "running"]}
      [] t.pc = "running" -> {[t EXCEPT !.pc = IF d.running THEN "sleep" ELSE "exited"]}
      [] t.pc = "sleep" -> {[t EXCEPT !.pc = "top"], [t EXCEPT !.pc = "stats"]}
      [] t.pc = "stats" -> {[t EXCEPT !.pc = "print"]}
      [] t.pc = "print" -> {[t EXCEPT !.pc = "top"]}

\* lines 44-190: the drivers that can result from the next step of the
\* thread that called start
start_next(d, t) ==
    LET at(pc) == [d EXCEPT !.threads = Moved(@, t, [t EXCEPT !.pc = pc])]
    IN  CASE t.pc = "entry" -> {at("set_running")}
          [] t.pc = "set_running" ->
                {IF d.running THEN at("returned")
                 ELSE [at("spawn_stats") EXCEPT !.running = TRUE]}
          [] t.pc = "spawn_stats" ->
                {[at("spawn_workers") EXCEPT !.threads = @ (+) SetToBag({LockThread("stats")})]}
          [] t.pc = "spawn_workers" ->
                {IF d.spawned < d.worker_threads
                 THEN [d EXCEPT !.threads = @ (+) SetToBag({LockThread("worker")}),
                                !.spawned = @ + 1]
                 ELSE at("initialize")}
          [] t.pc = "initialize" -> {at("initializing")}
          [] t.pc = "initializing" -> {at("start_capture"), at("failed")}
          [] t.pc = "start_capture" -> {at("starting")}
          [] t.pc = "starting" -> {[at("join") EXCEPT !.is_capturing = TRUE], at("failed")}
          [] t.pc = "failed" -> {at("clear_running")}
          [] t.pc = "clear_running" -> {[at("returned") EXCEPT !.running = FALSE]}
          [] t.pc = "join" -> {at("returned")}

InitLocks ==
    /\ driven = "locks"
    /\ \E worker_threads \in 0..LockWorkers : driver = LockDriverNew(worker_threads)
    /\ output = NoOutput
    /\ capture = NoCapture
    /\ ex = ExtractIdle
    /\ tcp = TcpNew(0, 0, 0)
    /\ dot = DotNew(0, 0, 0)
    /\ doq = DoqNew(0, 0, 0)
    /\ call = NoCall
    /\ offered = <<>>
    /\ feed = NoFeed
    /\ nd = NameIdle
    /\ ParseIdle

\* a step of thread t, which is not waiting
LockStep(t, kind) ==
    /\ BagIn(t, driver.threads)
    /\ t.kind = kind
    /\ CanStep(driver, t)
    /\ UNCHANGED <<nd, pkt, sent, ret, driven, tcp, dot, doq, offered, feed, output, capture, ex, call>>

StartStep(t) ==
    /\ LockStep(t, "start")
    /\ driver' \in start_next(driver, t)

StatsStep(t) ==
    /\ LockStep(t, "stats")
    /\ \E u \in stats_next(driver, t) : driver' = [driver EXCEPT !.threads = Moved(@, t, u)]

WorkerStep(t) ==
    /\ LockStep(t, "worker")
    /\ \E u \in worker_next(driver, t) : driver' = [driver EXCEPT !.threads = Moved(@, t, u)]

NextLocks ==
    \/ \E t \in BagToSet(driver.threads) : StartStep(t)
    \/ \E t \in BagToSet(driver.threads) : StatsStep(t)
    \/ \E t \in BagToSet(driver.threads) : WorkerStep(t)

SpecLocks == InitLocks /\ [][NextLocks]_vars

\* thread t waits for a mutex another thread holds
Blocked(d, t) == LockWanted(t) # "none" /\ ~LockFree(d, LockWanted(t))

\* t is not blocked, or the mutex t waits for is held by a thread of which
\* the same is true, along at most n holders
RECURSIVE Unblocks(_, _, _)
Unblocks(d, t, n) ==
    \/ ~Blocked(d, t)
    \/ /\ n > 0
       /\ \E h \in BagToSet(d.threads) :
             LockWanted(t) \in LocksHeld(h) /\ Unblocks(d, h, n - 1)

\* the threads that have not ended
LiveThreads(d) == {t \in BagToSet(d.threads) : t.pc # "returned"}

\* C37: while a thread of the call is alive some thread can take a step; every
\* thread that waits for a mutex waits for one whose holder is not waiting,
\* or whose holder waits for a mutex whose holder is not waiting; and no
\* mutex has two holders
C37_NoDeadlock ==
    /\ LiveThreads(driver) # {} => \E t \in LiveThreads(driver) : CanStep(driver, t)
    /\ \A t \in BagToSet(driver.threads) :
          /\ Unblocks(driver, t, 2)
          /\ LocksHeld(t) # {} => CopiesIn(t, driver.threads) = 1
    /\ \A t, u \in BagToSet(driver.threads) : t # u => LocksHeld(t) \cap LocksHeld(u) = {}

\* one worker is inside receive_packets with the capture guard and waits for
\* stats, another holds the parser guard and waits for stats, and the stats
\* thread holds stats
C37_Witness ==
    /\ driven = "locks"
    /\ \E t, u, v \in BagToSet(driver.threads) :
          /\ t.kind = "worker" /\ t.pc = "receive"
          /\ u.kind = "worker" /\ u.pc = "parser_stats"
          /\ v.kind = "stats" /\ v.pc = "print"

\* the threads the g-th call of start spawned that have not ended
ThreadsOf(d, g) == {t \in BagToSet(d.threads) : t.gen = g}

\* the g-th call of start has returned the error of its capture
StartFailed(d, g) ==
    /\ Len(d.captures) = g
    /\ d.pc = "idle"
    /\ d.ret \in CaptureErrors

\* C38: once a call of start has returned the error of capture.initialize()
\* or capture.start_capture(), the stats thread and every worker that call
\* spawned eventually end, whatever is called on the driver afterwards
C38_FailedStartEndsThreads ==
    \A g \in 1..MaxStarts : StartFailed(driver, g) ~> (ThreadsOf(driver, g) = {})

====
